---- MODULE Spec2Model ----
(***************************************************************************)
(* ATM simulator: the account store, the login / lockout logic, the        *)
(* account operations of the terminal front end (login_user,               *)
(* ATMOperations) and of the Tkinter front end (ATMInterface), and the     *)
(* transaction ledger.                                                     *)
(*                                                                         *)
(* Text a user types is a sequence of one-character strings, so that       *)
(* strip(), replace(), isdigit(), len() and float() are computed on it.    *)
(* A Python float is a record [k, v]: k = "num" with v the value in        *)
(* thousandths, or k = "nan", "inf", "ninf".  Sums of numbers are exact    *)
(* (binary rounding is not modelled).                                      *)
(***************************************************************************)
EXTENDS Integers, Sequences, FiniteSets, TLC

VARIABLES
    accounts,      \* the account store: account number -> account dict
    ui,            \* the front end driving the store: "gui" or "cli"
    screen,        \* ATMInterface: what main_frame shows
    pc,            \* terminal front end: the input prompt the program waits at
    atm_account,   \* the account number of the dict held by ATMOperations.account
    login_account, \* login_user: the account chosen before the PIN loop
    new_pin,       \* ATMOperations.change_pin: new PIN waiting for confirmation
    now,           \* datetime.now()
    out,           \* what the last handler reported to the user / caller
    wrong_streak   \* history: wrong-PIN attempts per account since its last successful login

vars == <<accounts, ui, screen, pc, atm_account, login_account, new_pin, now, out, wrong_streak>>

-----------------------------------------------------------------------------
(* Text *)

Digits == {"0", "1", "2", "3", "4", "5", "6", "7", "8", "9"}

DigitVal(c) ==
    CASE c = "0" -> 0 [] c = "1" -> 1 [] c = "2" -> 2 [] c = "3" -> 3
      [] c = "4" -> 4 [] c = "5" -> 5 [] c = "6" -> 6 [] c = "7" -> 7
      [] c = "8" -> 8 [] c = "9" -> 9

\* str.isdigit(): non-empty and every character a digit
isdigit(s) == Len(s) > 0 /\ \A i \in 1..Len(s) : s[i] \in Digits

RECURSIVE lstrip(_)
lstrip(s) == IF s # <<>> /\ Head(s) = " " THEN lstrip(Tail(s)) ELSE s

RECURSIVE rstrip(_)
rstrip(s) ==
    IF s # <<>> /\ s[Len(s)] = " " THEN rstrip(SubSeq(s, 1, Len(s) - 1)) ELSE s

\* str.strip()
strip(s) == rstrip(lstrip(s))

\* str.replace(c, '')
remove(s, c) == SelectSeq(s, LAMBDA x : x # c)

\* str.lower() on the letters float() looks at
lower(s) ==
    [i \in 1..Len(s) |->
        CASE s[i] = "N" -> "n" [] s[i] = "A" -> "a" [] s[i] = "I" -> "i"
          [] s[i] = "F" -> "f" [] OTHER -> s[i]]

-----------------------------------------------------------------------------
(* Floats *)

Num(v) == [k |-> "num", v |-> v]
NaN == [k |-> "nan", v |-> 0]
PosInf == [k |-> "inf", v |-> 0]
NegInf == [k |-> "ninf", v |-> 0]
\* float() raised ValueError
ValueError == [k |-> "ValueError", v |-> 0]

\* d dollars and m thousandths as a float
Dollars(d, m) == Num(d * 1000 + m)

\* a + b
FAdd(a, b) ==
    CASE a.k = "nan" \/ b.k = "nan" -> NaN
      [] a.k = "inf" -> (IF b.k = "ninf" THEN NaN ELSE PosInf)
      [] a.k = "ninf" -> (IF b.k = "inf" THEN NaN ELSE NegInf)
      [] b.k = "inf" -> PosInf
      [] b.k = "ninf" -> NegInf
      [] OTHER -> Num(a.v + b.v)

FNeg(a) ==
    CASE a.k = "num" -> Num(0 - a.v)
      [] a.k = "inf" -> NegInf
      [] a.k = "ninf" -> PosInf
      [] OTHER -> a

\* a - b
FSub(a, b) == FAdd(a, FNeg(b))

\* a > b (false when either is nan)
FGt(a, b) ==
    CASE a.k = "nan" \/ b.k = "nan" -> FALSE
      [] a.k = "inf" -> b.k # "inf"
      [] a.k = "ninf" -> FALSE
      [] b.k = "inf" -> FALSE
      [] b.k = "ninf" -> TRUE
      [] OTHER -> a.v > b.v

\* a == b (false when either is nan)
FEq(a, b) == a.k # "nan" /\ b.k # "nan" /\ a = b

\* a < b, a <= b, a >= b
FLt(a, b) == FGt(b, a)
FLe(a, b) == FLt(a, b) \/ FEq(a, b)
FGe(a, b) == FGt(a, b) \/ FEq(a, b)

\* the value of a run of digits
RECURSIVE DigitsVal(_)
DigitsVal(s) ==
    IF s = <<>> THEN 0
    ELSE DigitsVal(SubSeq(s, 1, Len(s) - 1)) * 10 + DigitVal(s[Len(s)])

\* the first three fraction digits as thousandths
FracVal(s) ==
    LET p == SubSeq(s \o <<"0", "0", "0">>, 1, 3) IN DigitsVal(p)

\* an unsigned decimal literal: digits, optionally one '.', at least one digit
Unsigned(s) ==
    LET dots == {i \in 1..Len(s) : s[i] = "."} IN
    IF dots = {} THEN
        IF isdigit(s) THEN Num(DigitsVal(s) * 1000) ELSE ValueError
    ELSE
        LET d == CHOOSE i \in dots : TRUE
            ip == SubSeq(s, 1, d - 1)
            fp == SubSeq(s, d + 1, Len(s))
        IN  IF /\ Cardinality(dots) = 1
               /\ ip = <<>> \/ isdigit(ip)
               /\ fp = <<>> \/ isdigit(fp)
               /\ Len(ip) + Len(fp) > 0
            THEN Num(DigitsVal(ip) * 1000 + FracVal(fp))
            ELSE ValueError

\* float(s) for text made of blanks, a sign, digits, '.', "nan", "inf";
\* anything else (also '$' and ',') raises ValueError.  Exponents, '_' and
\* more than three fraction digits are outside the inputs enumerated.
float(s) ==
    LET t == strip(s)
        signed == t # <<>> /\ Head(t) \in {"+", "-"}
        neg == t # <<>> /\ Head(t) = "-"
        r == IF signed THEN Tail(t) ELSE t
        word == lower(r)
        mag == CASE word = <<"n", "a", "n">> -> NaN
                 [] word = <<"i", "n", "f">> -> PosInf
                 [] OTHER -> Unsigned(r)
    IN  IF mag.k = "ValueError" THEN ValueError
        ELSE IF neg THEN FNeg(mag) ELSE mag

-----------------------------------------------------------------------------
(* validation.py *)

validate_account_number(account_number) ==
    /\ account_number # <<>>
    /\ isdigit(account_number)
    /\ ~(Len(account_number) < 6 \/ Len(account_number) > 12)

validate_pin(pin) ==
    /\ pin # <<>>
    /\ isdigit(pin)
    /\ Len(pin) = 4

\* len(str(amount).split('.')[-1]): str() prints the shortest digits, at
\* least one after the point
decimal_places(amount) ==
    IF amount.k # "num" THEN 0
    ELSE IF amount.v % 10 # 0 THEN 3
    ELSE IF amount.v % 100 # 0 THEN 2
    ELSE 1

validate_amount(amount_str) ==
    /\ amount_str # <<>>
    /\ LET cleaned_amount == strip(remove(remove(amount_str, "$"), ","))
           amount == float(cleaned_amount)
       IN  /\ amount.k # "ValueError"
           /\ ~FLt(amount, Num(0))
           /\ ~FEq(amount, Num(0))
           /\ ~FGt(amount, Dollars(10000, 0))
           /\ ~(decimal_places(amount) > 2)

\* is_valid_transaction_amount: (is_valid, error_message)
is_valid_transaction_amount(amount, current_balance, transaction_type) ==
    IF transaction_type = "withdrawal" /\ FGt(amount, current_balance)
    THEN [is_valid |-> FALSE, error_message |-> "Insufficient funds"]
    ELSE IF transaction_type = "withdrawal" /\ FGt(amount, Dollars(1000, 0))
    THEN [is_valid |-> FALSE, error_message |-> "Daily withdrawal limit is $1,000."]
    ELSE IF transaction_type = "deposit" /\ FGt(amount, Dollars(5000, 0))
    THEN [is_valid |-> FALSE, error_message |-> "Daily deposit limit is $5,000."]
    ELSE [is_valid |-> TRUE, error_message |-> ""]

-----------------------------------------------------------------------------
(* transaction_manager.py *)

\* a datetime object
DateTime(t) == [kind |-> "datetime", t |-> t]

\* timedelta(days = d)
timedelta(d) == d

\* mutant: the first 10 entries are kept instead of the last 10
add_transaction_keeps_oldest(account, transaction_type, amount, balance_after, t) ==
    LET transaction == [date |-> DateTime(t), type |-> transaction_type,
                        amount |-> amount, balance_after |-> balance_after]
        appended == Append(account.transaction_history, transaction)
        kept == IF Len(appended) > 10 THEN SubSeq(appended, 1, 10) ELSE appended
    IN  [account EXCEPT !.transaction_history = kept]

add_transaction(account, transaction_type, amount, balance_after, t) ==
    LET transaction == [date |-> DateTime(t), type |-> transaction_type,
                        amount |-> amount, balance_after |-> balance_after]
        history == IF "transaction_history" \in DOMAIN account
                   THEN account.transaction_history ELSE <<>>
        appended == Append(history, transaction)
        kept == IF Len(appended) > 10
                THEN SubSeq(appended, Len(appended) - 10 + 1, Len(appended))
                ELSE appended
    IN  [f \in DOMAIN account \cup {"transaction_history"} |->
            IF f = "transaction_history" THEN kept ELSE account[f]]

\* list[::-1]
reversed(l) == [i \in 1..Len(l) |-> l[Len(l) + 1 - i]]

\* mutant: the last 5 entries are returned oldest first
get_mini_statement_oldest_first(account) ==
    IF "transaction_history" \notin DOMAIN account THEN <<>>
    ELSE LET h == account.transaction_history
             first == IF Len(h) > 5 THEN Len(h) - 5 + 1 ELSE 1
         IN  SubSeq(h, first, Len(h))

get_mini_statement(account) ==
    IF "transaction_history" \notin DOMAIN account THEN <<>>
    ELSE LET h == account.transaction_history
             first == IF Len(h) > 5 THEN Len(h) - 5 + 1 ELSE 1
         IN  reversed(SubSeq(h, first, Len(h)))

\* The calendar of datetime, for one year of 365 days: a date is the number
\* of its day, day 1 being 1 January; timedelta(1) is one day.
DaysInMonth == <<31, 28, 31, 30, 31, 30, 31, 31, 30, 31, 30, 31>>

\* the days of the year before month m
RECURSIVE DaysBefore(_)
DaysBefore(m) == IF m = 1 THEN 0 ELSE DaysBefore(m - 1) + DaysInMonth[m - 1]

\* datetime.month and datetime.day
month(t) == CHOOSE m \in 1..12 : DaysBefore(m) < t /\ t <= DaysBefore(m) + DaysInMonth[m]
day(t) == t - DaysBefore(month(t))

\* datetime.replace(day=d) and datetime.replace(month=m): ValueError when
\* the month has no such day or there is no such month
replace_day(t, d) ==
    IF d >= 1 /\ d <= DaysInMonth[month(t)]
    THEN DateTime(DaysBefore(month(t)) + d)
    ELSE ValueError

replace_month(t, m) ==
    IF m >= 1 /\ m <= 12 /\ day(t) <= DaysInMonth[m]
    THEN DateTime(DaysBefore(m) + day(t))
    ELSE ValueError

\* "Calculate cutoff date", at date t
cutoff_date(t, days) ==
    IF days < day(t) THEN replace_day(t, day(t) - days) ELSE replace_month(t, month(t) - 1)

\* comparing a str with a datetime
TypeError == [k |-> "TypeError", v |-> 0]

\* the loop of get_transaction_summary from entry i on
RECURSIVE get_transaction_summary_loop(_, _, _, _)
get_transaction_summary_loop(history, i, cutoff, summary) ==
    IF i > Len(history) THEN summary
    ELSE LET transaction == history[i] IN
         IF transaction.date.kind # "datetime" THEN TypeError
         ELSE IF transaction.date.t >= cutoff.t THEN
            LET counted == [summary EXCEPT !.total_transactions = @ + 1] IN
            get_transaction_summary_loop(history, i + 1, cutoff,
                IF transaction.type = "Deposit"
                THEN [counted EXCEPT !.total_deposits = FAdd(@, transaction.amount),
                                     !.deposit_count = @ + 1]
                ELSE IF transaction.type = "Withdrawal"
                THEN [counted EXCEPT !.total_withdrawals = FAdd(@, transaction.amount),
                                     !.withdrawal_count = @ + 1]
                ELSE counted)
         ELSE get_transaction_summary_loop(history, i + 1, cutoff, summary)

\* get_transaction_summary(account, days) called at date t: the summary, or
\* the exception that leaves the function
get_transaction_summary(account, days, t) ==
    LET summary == [total_transactions |-> 0, total_deposits |-> Num(0),
                    total_withdrawals |-> Num(0), deposit_count |-> 0,
                    withdrawal_count |-> 0]
    IN  IF "transaction_history" \notin DOMAIN account THEN summary
        ELSE LET cutoff == cutoff_date(t, days) IN
             IF cutoff = ValueError THEN ValueError
             ELSE get_transaction_summary_loop(account.transaction_history, 1, cutoff, summary)

-----------------------------------------------------------------------------
(* authentication.py *)

authenticate_user(account, entered_pin) ==
    account.pin = entered_pin /\ ~account.locked

\* mutant: the account is locked only after a fourth failed attempt
handle_failed_attempt_locks_late(account) ==
    LET counted == [account EXCEPT !.failed_attempts = @ + 1]
        remaining_attempts == 3 - counted.failed_attempts
    IN  IF counted.failed_attempts > 3
        THEN [account |-> [counted EXCEPT !.locked = TRUE], result |-> TRUE,
              remaining_attempts |-> remaining_attempts]
        ELSE [account |-> counted, result |-> FALSE,
              remaining_attempts |-> remaining_attempts]

\* the account after the call, the value returned, and the attempts left
\* that the message states when the account is not locked
handle_failed_attempt(account) ==
    LET counted == [account EXCEPT !.failed_attempts = @ + 1]
        remaining_attempts == 3 - counted.failed_attempts
    IN  IF counted.failed_attempts >= 3
        THEN [account |-> [counted EXCEPT !.locked = TRUE], result |-> TRUE,
              remaining_attempts |-> remaining_attempts]
        ELSE [account |-> counted, result |-> FALSE,
              remaining_attempts |-> remaining_attempts]

\* mutant: the counter is not reset
reset_failed_attempts_skipped(account) == account

reset_failed_attempts(account) == [account EXCEPT !.failed_attempts = 0]

-----------------------------------------------------------------------------
(* database.py: the sample accounts *)

Acct123456789 == <<"1", "2", "3", "4", "5", "6", "7", "8", "9">>
Acct987654321 == <<"9", "8", "7", "6", "5", "4", "3", "2", "1">>
Acct555666777 == <<"5", "5", "5", "6", "6", "6", "7", "7", "7">>
Acct111222333 == <<"1", "1", "1", "2", "2", "2", "3", "3", "3">>
Acct444555666 == <<"4", "4", "4", "5", "5", "5", "6", "6", "6">>

Pin1234 == <<"1", "2", "3", "4">>
Pin5678 == <<"5", "6", "7", "8">>
Pin9999 == <<"9", "9", "9", "9">>
Pin0000 == <<"0", "0", "0", "0">>
Pin1111 == <<"1", "1", "1", "1">>

Transaction(t, type, amount, balance_after) ==
    [date |-> DateTime(t), type |-> type, amount |-> amount,
     balance_after |-> balance_after]

initialize_sample_data(t) ==
    (Acct123456789 :> [
        account_number |-> Acct123456789, name |-> "John Smith",
        pin |-> Pin1234, balance |-> Dollars(1500, 0),
        failed_attempts |-> 0, locked |-> FALSE,
        transaction_history |-> <<
            Transaction(t - timedelta(5), "Deposit", Dollars(500, 0), Dollars(1000, 0)),
            Transaction(t - timedelta(3), "Withdrawal", Dollars(200, 0), Dollars(800, 0)),
            Transaction(t - timedelta(1), "Deposit", Dollars(700, 0), Dollars(1500, 0))>>])
    @@ (Acct987654321 :> [
        account_number |-> Acct987654321, name |-> "Jane Doe",
        pin |-> Pin5678, balance |-> Dollars(2750, 500),
        failed_attempts |-> 0, locked |-> FALSE,
        transaction_history |-> <<
            Transaction(t - timedelta(7), "Deposit", Dollars(1000, 0), Dollars(2000, 0)),
            Transaction(t - timedelta(4), "Withdrawal", Dollars(250, 0), Dollars(1750, 0)),
            Transaction(t - timedelta(2), "Deposit", Dollars(1000, 500), Dollars(2750, 500))>>])
    @@ (Acct555666777 :> [
        account_number |-> Acct555666777, name |-> "Bob Johnson",
        pin |-> Pin9999, balance |-> Dollars(50, 0),
        failed_attempts |-> 0, locked |-> FALSE,
        transaction_history |-> <<
            Transaction(t - timedelta(10), "Deposit", Dollars(100, 0), Dollars(100, 0)),
            Transaction(t - timedelta(6), "Withdrawal", Dollars(50, 0), Dollars(50, 0))>>])
    @@ (Acct111222333 :> [
        account_number |-> Acct111222333, name |-> "Alice Brown",
        pin |-> Pin0000, balance |-> Dollars(5000, 0),
        failed_attempts |-> 2, locked |-> FALSE,
        transaction_history |-> <<>>])
    @@ (Acct444555666 :> [
        account_number |-> Acct444555666, name |-> "Charlie Wilson",
        pin |-> Pin1111, balance |-> Dollars(750, 250),
        failed_attempts |-> 3, locked |-> TRUE,
        transaction_history |-> <<>>])

-----------------------------------------------------------------------------
(* Bounds and the inputs enumerated *)

\* add_transaction calls in one run
MaxTransactions == 2

\* no ATMOperations instance / no account chosen
NoAccount == <<>>
\* no new PIN waiting for confirmation
NoPin == <<>>

Blank == " "

\* typed account numbers: three sample accounts (one with a history, one
\* with two failed attempts, the locked one), one with blanks around it, a
\* well-formed number that is not in the store, a malformed one, nothing
AccountInputs ==
    { Acct123456789, Acct111222333, Acct444555666,
      <<Blank>> \o Acct111222333 \o <<Blank>>,
      <<"0", "0", "0", "0", "0", "0">>,
      <<"1", "2", "a", "b">>,
      <<>> }

\* typed PINs: the PINs of the three accounts, a 3-digit one, a
\* non-digit one, nothing
PinInputs ==
    { Pin1234, Pin0000, Pin1111, <<"1", "2", "3">>, <<"1", "2", "a", "b">>, <<>> }

\* typed amounts: 1500 (the balance of the first sample account), nan, inf,
\* $1500, 0, -5, abc, nothing
AmountInputs ==
    { <<"1", "5", "0", "0">>, <<"n", "a", "n">>, <<"i", "n", "f">>,
      <<"$", "1", "5", "0", "0">>, <<"0">>, <<"-", "5">>, <<"a", "b", "c">>, <<>> }

\* what a handler reports: the handler, the account it addressed, the
\* message, and the attempts left where the message states them
Report(op, acct, msg) == [op |-> op, acct |-> acct, msg |-> msg, remaining |-> -1]
ReportRemaining(op, acct, msg, remaining) ==
    [op |-> op, acct |-> acct, msg |-> msg, remaining |-> remaining]

Init ==
    /\ now = 0
    /\ accounts = initialize_sample_data(now)
    /\ ui \in {"gui", "cli"}
    /\ screen = IF ui = "gui" THEN "welcome" ELSE "none"
    /\ pc = IF ui = "cli" THEN "idle" ELSE "none"
    /\ atm_account = NoAccount
    /\ login_account = NoAccount
    /\ new_pin = NoPin
    /\ out = Report("start", NoAccount, "")
    /\ wrong_streak = [a \in DOMAIN accounts |-> 0]

-----------------------------------------------------------------------------
(* gui_interface.py: ATMInterface *)

\* the Start button of the welcome screen: display_login
ATMInterface_display_login ==
    /\ ui = "gui"
    /\ screen = "welcome"
    /\ screen' = "login"
    /\ out' = Report("display_login", NoAccount, "")
    /\ UNCHANGED <<accounts, ui, pc, atm_account, login_account, new_pin, now, wrong_streak>>

\* mutant: the locked test is missing
ATMInterface_locked_skipped(account) == FALSE

\* handle_login, the locked test
ATMInterface_locked(account) == account.locked

\* mutant: the account is locked at the second failed attempt
ATMInterface_wrong_pin_locks_early(account) ==
    LET counted == [account EXCEPT !.failed_attempts = @ + 1] IN
    IF counted.failed_attempts >= 2
    THEN [counted EXCEPT !.locked = TRUE]
    ELSE counted

\* handle_login, the PIN differs: count the attempt and lock at three
ATMInterface_wrong_pin(account) ==
    LET counted == [account EXCEPT !.failed_attempts = @ + 1] IN
    IF counted.failed_attempts >= 3
    THEN [counted EXCEPT !.locked = TRUE]
    ELSE counted

\* handle_login, the PIN matches
ATMInterface_login_success(account) == [account EXCEPT !.failed_attempts = 0]

\* the Login button: handle_login with the two entry fields
ATMInterface_handle_login(account_entry, pin) ==
    /\ ui = "gui"
    /\ screen = "login"
    /\ LET account_number == strip(account_entry) IN
       IF account_number = <<>> \/ pin = <<>> THEN
            /\ out' = Report("handle_login", account_number, "Please enter both account number and PIN")
            /\ UNCHANGED <<accounts, screen, atm_account, wrong_streak>>
       ELSE IF account_number \notin DOMAIN accounts THEN
            /\ out' = Report("handle_login", account_number, "Account not found")
            /\ UNCHANGED <<accounts, screen, atm_account, wrong_streak>>
       ELSE IF ATMInterface_locked(accounts[account_number]) THEN
            /\ out' = Report("handle_login", account_number, "Account locked")
            /\ UNCHANGED <<accounts, screen, atm_account, wrong_streak>>
       ELSE IF accounts[account_number].pin # pin THEN
            LET account == ATMInterface_wrong_pin(accounts[account_number]) IN
            /\ accounts' = [accounts EXCEPT ![account_number] = account]
            /\ wrong_streak' = [wrong_streak EXCEPT ![account_number] = @ + 1]
            /\ out' = IF account.failed_attempts >= 3
                      THEN Report("handle_login", account_number, "Account locked due to multiple failed attempts")
                      ELSE ReportRemaining("handle_login", account_number, "Incorrect PIN",
                                           3 - account.failed_attempts)
            /\ UNCHANGED <<screen, atm_account>>
       ELSE
            /\ accounts' = [accounts EXCEPT ![account_number] = ATMInterface_login_success(@)]
            /\ wrong_streak' = [wrong_streak EXCEPT ![account_number] = 0]
            /\ atm_account' = account_number
            /\ screen' = "menu"
            /\ out' = Report("handle_login", account_number, "Login successful")
    /\ UNCHANGED <<ui, pc, login_account, new_pin, now>>

ATMInterface_view_balance ==
    /\ ui = "gui"
    /\ screen = "menu"
    /\ screen' = "balance"
    /\ out' = Report("view_balance", atm_account, "Balance")
    /\ UNCHANGED <<accounts, ui, pc, atm_account, login_account, new_pin, now, wrong_streak>>

\* mutant: the balance is assigned the amount instead of increased by it
ATMInterface_process_deposit_assigns(account, amount, t) ==
    LET credited == [account EXCEPT !.balance = amount] IN
    add_transaction(credited, "Deposit", amount, credited.balance, t)

\* deposit_money, "Process deposit" and "Record transaction"
ATMInterface_process_deposit(account, amount, t) ==
    LET credited == [account EXCEPT !.balance = FAdd(@, amount)] IN
    add_transaction(credited, "Deposit", amount, credited.balance, t)

\* deposit_money with the text typed into the dialog (nothing typed and a
\* cancelled dialog are both "not amount")
ATMInterface_deposit_money(amount_str) ==
    /\ ui = "gui"
    /\ screen = "menu"
    /\ LET amount == float(amount_str) IN
       IF amount_str = <<>> THEN
            /\ screen' = "blank"
            /\ out' = Report("deposit_money", atm_account, "No amount")
            /\ UNCHANGED <<accounts, now>>
       ELSE IF amount.k = "ValueError" THEN
            /\ screen' = "blank"
            /\ out' = Report("deposit_money", atm_account, "Invalid amount entered")
            /\ UNCHANGED <<accounts, now>>
       ELSE IF FLe(amount, Num(0)) THEN
            /\ screen' = "blank"
            /\ out' = Report("deposit_money", atm_account, "Deposit amount must be greater than zero")
            /\ UNCHANGED <<accounts, now>>
       ELSE
            /\ now < MaxTransactions
            /\ accounts' = [accounts EXCEPT ![atm_account] = ATMInterface_process_deposit(@, amount, now)]
            /\ now' = now + 1
            /\ screen' = "menu"
            /\ out' = Report("deposit_money", atm_account, "Deposit successful")
    /\ UNCHANGED <<ui, pc, atm_account, login_account, new_pin, wrong_streak>>

\* withdraw_money, "Process withdrawal" and "Record transaction"
ATMInterface_process_withdrawal(account, amount, t) ==
    LET debited == [account EXCEPT !.balance = FSub(@, amount)] IN
    add_transaction(debited, "Withdrawal", amount, debited.balance, t)

ATMInterface_withdraw_money(amount_str) ==
    /\ ui = "gui"
    /\ screen = "menu"
    /\ LET amount == float(amount_str) IN
       IF amount_str = <<>> THEN
            /\ screen' = "blank"
            /\ out' = Report("withdraw_money", atm_account, "No amount")
            /\ UNCHANGED <<accounts, now>>
       ELSE IF amount.k = "ValueError" THEN
            /\ screen' = "blank"
            /\ out' = Report("withdraw_money", atm_account, "Invalid amount entered")
            /\ UNCHANGED <<accounts, now>>
       ELSE IF FLe(amount, Num(0)) THEN
            /\ screen' = "blank"
            /\ out' = Report("withdraw_money", atm_account, "Withdrawal amount must be greater than zero")
            /\ UNCHANGED <<accounts, now>>
       ELSE IF FGt(amount, accounts[atm_account].balance) THEN
            /\ screen' = "blank"
            /\ out' = Report("withdraw_money", atm_account, "Insufficient funds")
            /\ UNCHANGED <<accounts, now>>
       ELSE
            /\ now < MaxTransactions
            /\ accounts' = [accounts EXCEPT ![atm_account] = ATMInterface_process_withdrawal(@, amount, now)]
            /\ now' = now + 1
            /\ screen' = "menu"
            /\ out' = Report("withdraw_money", atm_account, "Withdrawal successful")
    /\ UNCHANGED <<ui, pc, atm_account, login_account, new_pin, wrong_streak>>

\* mutant: the entry is recorded but the PIN is not stored
ATMInterface_update_pin_keeps_old(account, pin, t) ==
    add_transaction(account, "PIN Change", Num(0), account.balance, t)

\* change_pin, "Update PIN" and "Record transaction"
ATMInterface_update_pin(account, pin, t) ==
    LET updated == [account EXCEPT !.pin = pin] IN
    add_transaction(updated, "PIN Change", Num(0), updated.balance, t)

\* change_pin with the texts typed into its three dialogs
ATMInterface_change_pin(current_pin, pin, confirm_pin) ==
    /\ ui = "gui"
    /\ screen = "menu"
    /\ IF current_pin = <<>> THEN
            /\ screen' = "blank"
            /\ out' = Report("change_pin", atm_account, "No current PIN")
            /\ UNCHANGED <<accounts, now>>
       ELSE IF current_pin # accounts[atm_account].pin THEN
            /\ screen' = "blank"
            /\ out' = Report("change_pin", atm_account, "Current PIN is incorrect")
            /\ UNCHANGED <<accounts, now>>
       ELSE IF pin = <<>> THEN
            /\ screen' = "blank"
            /\ out' = Report("change_pin", atm_account, "No new PIN")
            /\ UNCHANGED <<accounts, now>>
       ELSE IF pin = accounts[atm_account].pin THEN
            /\ screen' = "blank"
            /\ out' = Report("change_pin", atm_account, "New PIN cannot be the same as current PIN")
            /\ UNCHANGED <<accounts, now>>
       ELSE IF confirm_pin = <<>> THEN
            /\ screen' = "blank"
            /\ out' = Report("change_pin", atm_account, "No confirmation")
            /\ UNCHANGED <<accounts, now>>
       ELSE IF pin # confirm_pin THEN
            /\ screen' = "blank"
            /\ out' = Report("change_pin", atm_account, "PINs do not match")
            /\ UNCHANGED <<accounts, now>>
       ELSE
            /\ now < MaxTransactions
            /\ accounts' = [accounts EXCEPT ![atm_account] = ATMInterface_update_pin(@, pin, now)]
            /\ now' = now + 1
            /\ screen' = "menu"
            /\ out' = Report("change_pin", atm_account, "PIN changed successfully")
    /\ UNCHANGED <<ui, pc, atm_account, login_account, new_pin, wrong_streak>>

ATMInterface_mini_statement ==
    /\ ui = "gui"
    /\ screen = "menu"
    /\ screen' = "statement"
    /\ out' = Report("mini_statement", atm_account,
                     IF get_mini_statement(accounts[atm_account]) = <<>>
                     THEN "No recent transactions found" ELSE "Statement")
    /\ UNCHANGED <<accounts, ui, pc, atm_account, login_account, new_pin, now, wrong_streak>>

\* the "Back to Menu" button of the balance and statement screens
ATMInterface_display_menu ==
    /\ ui = "gui"
    /\ screen \in {"balance", "statement"}
    /\ screen' = "menu"
    /\ out' = Report("display_menu", atm_account, "")
    /\ UNCHANGED <<accounts, ui, pc, atm_account, login_account, new_pin, now, wrong_streak>>

\* exit_atm, answered yes: the main loop ends
ATMInterface_exit_atm ==
    /\ ui = "gui"
    /\ screen = "menu"
    /\ screen' = "quit"
    /\ out' = Report("exit_atm", atm_account, "")
    /\ UNCHANGED <<accounts, ui, pc, atm_account, login_account, new_pin, now, wrong_streak>>

-----------------------------------------------------------------------------
(* authentication.py: login_user, one action per prompt *)

\* mutant: the locked test is missing
login_user_locked_skipped(account) == FALSE

\* "Check if account is already locked"
login_user_locked(account) == account.locked

\* a caller calls login_user(accounts)
login_user_call ==
    /\ ui = "cli"
    /\ pc = "idle"
    /\ pc' = "login_account"
    /\ atm_account' = NoAccount
    /\ out' = Report("login_user", NoAccount, "ATM LOGIN SYSTEM")
    /\ UNCHANGED <<accounts, ui, screen, login_account, new_pin, now, wrong_streak>>

\* "Enter your account number: "
login_user_account(typed) ==
    /\ ui = "cli"
    /\ pc = "login_account"
    /\ LET account_number == strip(typed) IN
       IF ~validate_account_number(account_number) THEN
            /\ out' = Report("login_user", account_number, "Invalid account number")
            /\ UNCHANGED <<pc, login_account>>
       ELSE IF account_number \notin DOMAIN accounts THEN
            /\ out' = Report("login_user", account_number, "Account not found")
            /\ UNCHANGED <<pc, login_account>>
       ELSE IF login_user_locked(accounts[account_number]) THEN
            /\ out' = Report("login_user", account_number, "Account locked")
            /\ pc' = "idle"
            /\ UNCHANGED login_account
       ELSE IF ~(accounts[account_number].failed_attempts < 3) THEN
            /\ out' = Report("login_user", account_number, "None")
            /\ pc' = "idle"
            /\ UNCHANGED login_account
       ELSE
            /\ out' = Report("login_user", account_number, "Hello")
            /\ pc' = "login_pin"
            /\ login_account' = account_number
    /\ UNCHANGED <<accounts, ui, screen, atm_account, new_pin, now, wrong_streak>>

\* mutant: the PIN typed is not passed through validate_pin
login_user_pin_unvalidated(pin) ==
    /\ ui = "cli"
    /\ pc = "login_pin"
    /\ LET account == accounts[login_account] IN
       IF authenticate_user(account, pin) THEN
            /\ accounts' = [accounts EXCEPT ![login_account] = reset_failed_attempts(account)]
            /\ wrong_streak' = [wrong_streak EXCEPT ![login_account] = 0]
            /\ atm_account' = login_account
            /\ login_account' = NoAccount
            /\ pc' = "menu"
            /\ out' = Report("login_user", login_account, "Login successful")
       ELSE
            LET failed == handle_failed_attempt(account) IN
            /\ accounts' = [accounts EXCEPT ![login_account] = failed.account]
            /\ wrong_streak' = [wrong_streak EXCEPT ![login_account] = @ + 1]
            /\ UNCHANGED atm_account
            /\ IF failed.result \/ ~(failed.account.failed_attempts < 3) THEN
                    /\ pc' = "idle"
                    /\ login_account' = NoAccount
                    /\ out' = Report("login_user", login_account, "None")
               ELSE
                    /\ UNCHANGED <<pc, login_account>>
                    /\ out' = ReportRemaining("login_user", login_account, "Incorrect PIN",
                                              failed.remaining_attempts)
    /\ UNCHANGED <<ui, screen, new_pin, now>>

\* "Enter your 4-digit PIN: "
login_user_pin(pin) ==
    /\ ui = "cli"
    /\ pc = "login_pin"
    /\ LET account == accounts[login_account] IN
       IF ~validate_pin(pin) THEN
            /\ out' = Report("login_user", login_account, "Invalid PIN")
            /\ UNCHANGED <<accounts, pc, atm_account, login_account, wrong_streak>>
       ELSE IF authenticate_user(account, pin) THEN
            /\ accounts' = [accounts EXCEPT ![login_account] = reset_failed_attempts(account)]
            /\ wrong_streak' = [wrong_streak EXCEPT ![login_account] = 0]
            /\ atm_account' = login_account
            /\ login_account' = NoAccount
            /\ pc' = "menu"
            /\ out' = Report("login_user", login_account, "Login successful")
       ELSE
            LET failed == handle_failed_attempt(account) IN
            /\ accounts' = [accounts EXCEPT ![login_account] = failed.account]
            /\ wrong_streak' = [wrong_streak EXCEPT ![login_account] = @ + 1]
            /\ UNCHANGED atm_account
            /\ IF failed.result THEN
                    /\ pc' = "idle"
                    /\ login_account' = NoAccount
                    /\ out' = Report("login_user", login_account, "None")
               ELSE IF failed.account.failed_attempts < 3 THEN
                    /\ UNCHANGED <<pc, login_account>>
                    /\ out' = ReportRemaining("login_user", login_account, "Incorrect PIN",
                                              failed.remaining_attempts)
               ELSE
                    /\ pc' = "idle"
                    /\ login_account' = NoAccount
                    /\ out' = ReportRemaining("login_user", login_account, "Incorrect PIN",
                                              failed.remaining_attempts)
    /\ UNCHANGED <<ui, screen, new_pin, now>>

-----------------------------------------------------------------------------
(* atm_operations.py: ATMOperations, one action per prompt *)

ATMOperations_view_balance ==
    /\ ui = "cli"
    /\ pc = "menu"
    /\ out' = Report("view_balance", atm_account, "Balance")
    /\ UNCHANGED <<accounts, ui, screen, pc, atm_account, login_account, new_pin, now, wrong_streak>>

\* a caller calls deposit_money(), withdraw_money() or change_pin()
ATMOperations_call(op) ==
    /\ ui = "cli"
    /\ pc = "menu"
    /\ pc' = op
    /\ out' = Report(op, atm_account, "")
    /\ UNCHANGED <<accounts, ui, screen, atm_account, login_account, new_pin, now, wrong_streak>>

\* mutant: the deposit is credited but not recorded
ATMOperations_process_deposit_unrecorded(account, amount, t) ==
    [account EXCEPT !.balance = FAdd(@, amount)]

\* deposit_money, "Process deposit" and "Record transaction"
ATMOperations_process_deposit(account, amount, t) ==
    LET credited == [account EXCEPT !.balance = FAdd(@, amount)] IN
    add_transaction(credited, "Deposit", amount, credited.balance, t)

\* "Enter deposit amount: $"
ATMOperations_deposit_money(amount_str) ==
    /\ ui = "cli"
    /\ pc = "deposit_money"
    /\ LET amount == float(amount_str) IN
       IF ~validate_amount(amount_str) THEN
            /\ out' = Report("deposit_money", atm_account, "Invalid amount")
            /\ UNCHANGED <<accounts, pc, now>>
       ELSE IF amount.k = "ValueError" THEN
            /\ out' = Report("deposit_money", atm_account, "ValueError")
            /\ pc' = "raised"
            /\ UNCHANGED <<accounts, now>>
       ELSE IF FLe(amount, Num(0)) THEN
            /\ out' = Report("deposit_money", atm_account, "Deposit amount must be greater than zero")
            /\ UNCHANGED <<accounts, pc, now>>
       ELSE
            /\ now < MaxTransactions
            /\ accounts' = [accounts EXCEPT ![atm_account] = ATMOperations_process_deposit(@, amount, now)]
            /\ now' = now + 1
            /\ pc' = "menu"
            /\ out' = Report("deposit_money", atm_account, "Deposit successful")
    /\ UNCHANGED <<ui, screen, atm_account, login_account, new_pin, wrong_streak>>

\* mutant: the entry records the balance before the withdrawal
ATMOperations_process_withdrawal_stale(account, amount, t) ==
    LET debited == [account EXCEPT !.balance = FSub(@, amount)] IN
    add_transaction(debited, "Withdrawal", amount, account.balance, t)

\* withdraw_money, "Process withdrawal" and "Record transaction"
ATMOperations_process_withdrawal(account, amount, t) ==
    LET debited == [account EXCEPT !.balance = FSub(@, amount)] IN
    add_transaction(debited, "Withdrawal", amount, debited.balance, t)

\* mutant: withdraw_money asks is_valid_transaction_amount before it commits
ATMOperations_withdraw_money_limited(amount_str) ==
    /\ ui = "cli"
    /\ pc = "withdraw_money"
    /\ LET amount == float(amount_str) IN
       IF ~validate_amount(amount_str) THEN
            /\ out' = Report("withdraw_money", atm_account, "Invalid amount")
            /\ UNCHANGED <<accounts, pc, now>>
       ELSE IF amount.k = "ValueError" THEN
            /\ out' = Report("withdraw_money", atm_account, "ValueError")
            /\ pc' = "raised"
            /\ UNCHANGED <<accounts, now>>
       ELSE IF FLe(amount, Num(0)) THEN
            /\ out' = Report("withdraw_money", atm_account, "Withdrawal amount must be greater than zero")
            /\ UNCHANGED <<accounts, pc, now>>
       ELSE IF ~is_valid_transaction_amount(amount, accounts[atm_account].balance, "withdrawal").is_valid THEN
            /\ out' = Report("withdraw_money", atm_account,
                    is_valid_transaction_amount(amount, accounts[atm_account].balance, "withdrawal").error_message)
            /\ UNCHANGED <<accounts, pc, now>>
       ELSE
            /\ now < MaxTransactions
            /\ accounts' = [accounts EXCEPT ![atm_account] = ATMOperations_process_withdrawal(@, amount, now)]
            /\ now' = now + 1
            /\ pc' = "menu"
            /\ out' = Report("withdraw_money", atm_account, "Withdrawal successful")
    /\ UNCHANGED <<ui, screen, atm_account, login_account, new_pin, wrong_streak>>

\* "Enter withdrawal amount: $"
ATMOperations_withdraw_money(amount_str) ==
    /\ ui = "cli"
    /\ pc = "withdraw_money"
    /\ LET amount == float(amount_str) IN
       IF ~validate_amount(amount_str) THEN
            /\ out' = Report("withdraw_money", atm_account, "Invalid amount")
            /\ UNCHANGED <<accounts, pc, now>>
       ELSE IF amount.k = "ValueError" THEN
            /\ out' = Report("withdraw_money", atm_account, "ValueError")
            /\ pc' = "raised"
            /\ UNCHANGED <<accounts, now>>
       ELSE IF FLe(amount, Num(0)) THEN
            /\ out' = Report("withdraw_money", atm_account, "Withdrawal amount must be greater than zero")
            /\ UNCHANGED <<accounts, pc, now>>
       ELSE IF FGt(amount, accounts[atm_account].balance) THEN
            /\ out' = Report("withdraw_money", atm_account, "Insufficient funds")
            /\ UNCHANGED <<accounts, pc, now>>
       ELSE
            /\ now < MaxTransactions
            /\ accounts' = [accounts EXCEPT ![atm_account] = ATMOperations_process_withdrawal(@, amount, now)]
            /\ now' = now + 1
            /\ pc' = "menu"
            /\ out' = Report("withdraw_money", atm_account, "Withdrawal successful")
    /\ UNCHANGED <<ui, screen, atm_account, login_account, new_pin, wrong_streak>>

\* mutant: a PIN change is counted as a failed attempt
ATMOperations_update_pin_counted(account, pin, t) ==
    LET updated == [account EXCEPT !.pin = pin, !.failed_attempts = @ + 1] IN
    add_transaction(updated, "PIN Change", Num(0), updated.balance, t)

\* change_pin, "Update PIN" and "Record transaction"
ATMOperations_update_pin(account, pin, t) ==
    LET updated == [account EXCEPT !.pin = pin] IN
    add_transaction(updated, "PIN Change", Num(0), updated.balance, t)

\* "Enter current PIN: "
ATMOperations_change_pin_current(current_pin) ==
    /\ ui = "cli"
    /\ pc = "change_pin"
    /\ IF ~validate_pin(current_pin) THEN
            /\ out' = Report("change_pin", atm_account, "Invalid PIN")
            /\ pc' = "menu"
       ELSE IF current_pin # accounts[atm_account].pin THEN
            /\ out' = Report("change_pin", atm_account, "Current PIN is incorrect")
            /\ pc' = "menu"
       ELSE
            /\ out' = Report("change_pin", atm_account, "")
            /\ pc' = "change_pin_new"
    /\ UNCHANGED <<accounts, ui, screen, atm_account, login_account, new_pin, now, wrong_streak>>

\* mutant: the new PIN is not compared with the stored PIN
ATMOperations_change_pin_new_unchecked(pin) ==
    /\ ui = "cli"
    /\ pc = "change_pin_new"
    /\ IF ~validate_pin(pin) THEN
            /\ out' = Report("change_pin", atm_account, "Invalid PIN")
            /\ UNCHANGED <<pc, new_pin>>
       ELSE
            /\ out' = Report("change_pin", atm_account, "")
            /\ pc' = "change_pin_confirm"
            /\ new_pin' = pin
    /\ UNCHANGED <<accounts, ui, screen, atm_account, login_account, now, wrong_streak>>

\* "Enter new 4-digit PIN: "
ATMOperations_change_pin_new(pin) ==
    /\ ui = "cli"
    /\ pc = "change_pin_new"
    /\ IF ~validate_pin(pin) THEN
            /\ out' = Report("change_pin", atm_account, "Invalid PIN")
            /\ UNCHANGED <<pc, new_pin>>
       ELSE IF pin = accounts[atm_account].pin THEN
            /\ out' = Report("change_pin", atm_account, "New PIN cannot be the same as current PIN")
            /\ UNCHANGED <<pc, new_pin>>
       ELSE
            /\ out' = Report("change_pin", atm_account, "")
            /\ pc' = "change_pin_confirm"
            /\ new_pin' = pin
    /\ UNCHANGED <<accounts, ui, screen, atm_account, login_account, now, wrong_streak>>

\* mutant: the new PIN is written to every account of the store
ATMOperations_change_pin_confirm_all(confirm_pin) ==
    /\ ui = "cli"
    /\ pc = "change_pin_confirm"
    /\ IF new_pin # confirm_pin THEN
            /\ out' = Report("change_pin", atm_account, "PINs do not match")
            /\ pc' = "change_pin_new"
            /\ new_pin' = NoPin
            /\ UNCHANGED <<accounts, now>>
       ELSE
            /\ now < MaxTransactions
            /\ accounts' = [b \in DOMAIN accounts |->
                    IF b = atm_account
                    THEN ATMOperations_update_pin(accounts[b], new_pin, now)
                    ELSE [accounts[b] EXCEPT !.pin = new_pin]]
            /\ now' = now + 1
            /\ pc' = "menu"
            /\ new_pin' = NoPin
            /\ out' = Report("change_pin", atm_account, "PIN changed successfully")
    /\ UNCHANGED <<ui, screen, atm_account, login_account, wrong_streak>>

\* "Confirm new PIN: "
ATMOperations_change_pin_confirm(confirm_pin) ==
    /\ ui = "cli"
    /\ pc = "change_pin_confirm"
    /\ IF new_pin # confirm_pin THEN
            /\ out' = Report("change_pin", atm_account, "PINs do not match")
            /\ pc' = "change_pin_new"
            /\ new_pin' = NoPin
            /\ UNCHANGED <<accounts, now>>
       ELSE
            /\ now < MaxTransactions
            /\ accounts' = [accounts EXCEPT ![atm_account] = ATMOperations_update_pin(@, new_pin, now)]
            /\ now' = now + 1
            /\ pc' = "menu"
            /\ new_pin' = NoPin
            /\ out' = Report("change_pin", atm_account, "PIN changed successfully")
    /\ UNCHANGED <<ui, screen, atm_account, login_account, wrong_streak>>

\* mutant: the history is reversed in place to print it newest first
ATMOperations_mini_statement_reverses ==
    /\ ui = "cli"
    /\ pc = "menu"
    /\ accounts' = [accounts EXCEPT ![atm_account].transaction_history = reversed(@)]
    /\ out' = Report("mini_statement", atm_account,
                     IF get_mini_statement(accounts[atm_account]) = <<>>
                     THEN "No recent transactions found" ELSE "Statement")
    /\ UNCHANGED <<ui, screen, pc, atm_account, login_account, new_pin, now, wrong_streak>>

ATMOperations_mini_statement ==
    /\ ui = "cli"
    /\ pc = "menu"
    /\ out' = Report("mini_statement", atm_account,
                     IF get_mini_statement(accounts[atm_account]) = <<>>
                     THEN "No recent transactions found" ELSE "Statement")
    /\ UNCHANGED <<accounts, ui, screen, pc, atm_account, login_account, new_pin, now, wrong_streak>>

\* exit_program: the session ends, the caller may call login_user again
ATMOperations_exit_program ==
    /\ ui = "cli"
    /\ pc = "menu"
    /\ pc' = "idle"
    /\ out' = Report("exit_program", atm_account, "Goodbye")
    /\ UNCHANGED <<accounts, ui, screen, atm_account, login_account, new_pin, now, wrong_streak>>

-----------------------------------------------------------------------------

Next ==
    \/ ATMInterface_display_login
    \/ \E a \in AccountInputs, p \in PinInputs : ATMInterface_handle_login(a, p)
    \/ ATMInterface_view_balance
    \/ \E s \in AmountInputs : ATMInterface_deposit_money(s)
    \/ \E s \in AmountInputs : ATMInterface_withdraw_money(s)
    \/ \E c \in PinInputs, p \in PinInputs, q \in PinInputs : ATMInterface_change_pin(c, p, q)
    \/ ATMInterface_mini_statement
    \/ ATMInterface_display_menu
    \/ ATMInterface_exit_atm
    \/ login_user_call
    \/ \E a \in AccountInputs : login_user_account(a)
    \/ \E p \in PinInputs : login_user_pin(p)
    \/ ATMOperations_view_balance
    \/ \E op \in {"deposit_money", "withdraw_money", "change_pin"} : ATMOperations_call(op)
    \/ \E s \in AmountInputs : ATMOperations_deposit_money(s)
    \/ \E s \in AmountInputs : ATMOperations_withdraw_money(s)
    \/ \E p \in PinInputs : ATMOperations_change_pin_current(p)
    \/ \E p \in PinInputs : ATMOperations_change_pin_new(p)
    \/ \E p \in PinInputs : ATMOperations_change_pin_confirm(p)
    \/ ATMOperations_mini_statement
    \/ ATMOperations_exit_program

Spec == Init /\ [][Next]_vars

-----------------------------------------------------------------------------
(* The ledger alone: add_transaction called over and over on the sample    *)
(* accounts, so that a history passes its capacity.                        *)

\* add_transaction calls in one run of the ledger
MaxAppends == 9

\* (account, transaction_type, amount, balance_after) of the calls
LedgerCalls ==
    { <<Acct123456789, "Deposit", Dollars(1500, 0), Dollars(3000, 0)>>,
      <<Acct123456789, "Withdrawal", Dollars(1500, 0), Dollars(0, 0)>>,
      <<Acct111222333, "PIN Change", Num(0), Dollars(5000, 0)>> }

InitLedger ==
    /\ now = 0
    /\ accounts = initialize_sample_data(now)
    /\ ui = "none"
    /\ screen = "none"
    /\ pc = "none"
    /\ atm_account = NoAccount
    /\ login_account = NoAccount
    /\ new_pin = NoPin
    /\ out = Report("start", NoAccount, "")
    /\ wrong_streak = [a \in DOMAIN accounts |-> 0]

add_transaction_call(account_number, transaction_type, amount, balance_after) ==
    /\ ui = "none"
    /\ now < MaxAppends
    /\ accounts' = [accounts EXCEPT ![account_number] =
            add_transaction(@, transaction_type, amount, balance_after, now)]
    /\ now' = now + 1
    /\ out' = Report("add_transaction", account_number, transaction_type)
    /\ UNCHANGED <<ui, screen, pc, atm_account, login_account, new_pin, wrong_streak>>

NextLedger ==
    \E c \in LedgerCalls : add_transaction_call(c[1], c[2], c[3], c[4])

SpecLedger == InitLedger /\ [][NextLedger]_vars

-----------------------------------------------------------------------------
(* database.py: the store functions, and the library calls a caller makes   *)
(* on the sample store                                                     *)

\* Python's None
None == [None |-> TRUE]

\* datetime.isoformat(): the text of the date
isoformat(d) == [kind |-> "str", t |-> d.t]

\* the loop of save_account_data over one account: account.copy() is a
\* shallow copy, so the transaction dicts it walks are the live ones
save_account_data_account(account) ==
    IF "transaction_history" \in DOMAIN account
    THEN [account EXCEPT !.transaction_history =
            [i \in 1..Len(account.transaction_history) |->
                LET transaction == account.transaction_history[i] IN
                IF transaction.date.kind = "datetime"
                THEN [transaction EXCEPT !.date = isoformat(transaction.date)]
                ELSE transaction]]
    ELSE account

\* save_account_data: the live store after the call, the content handed to
\* json.dump, and the value returned (ok: open() and json.dump() succeeded)
save_account_data(accts, ok) ==
    LET accounts_copy == [acc_num \in DOMAIN accts |-> save_account_data_account(accts[acc_num])]
    IN  [accounts |-> accounts_copy, file |-> accounts_copy, result |-> ok]

\* datetime.fromisoformat(): the date a text of isoformat() stands for
fromisoformat(s) == [kind |-> "datetime", t |-> s.t]

\* the loop of load_account_data over one account
load_account_data_account(account) ==
    IF "transaction_history" \in DOMAIN account
    THEN [account EXCEPT !.transaction_history =
            [i \in 1..Len(account.transaction_history) |->
                LET transaction == account.transaction_history[i] IN
                IF transaction.date.kind = "str"
                THEN [transaction EXCEPT !.date = fromisoformat(transaction.date)]
                ELSE transaction]]
    ELSE account

\* mutant: the dates are left as json.load gives them
load_account_data_keeps_text(file) ==
    IF file = None THEN None ELSE file

\* load_account_data on the content of the file (None: there is no file, or
\* json.load raises on it). json.dump and json.load give back the str, int,
\* float, bool, list and str-keyed dict values of the store as they were
load_account_data(file) ==
    IF file = None
    THEN None
    ELSE [acc_num \in DOMAIN file |-> load_account_data_account(file[acc_num])]

create_new_account(account_number, name, pin, initial_balance) ==
    [account_number |-> account_number, name |-> name, pin |-> pin,
     balance |-> initial_balance, failed_attempts |-> 0, locked |-> FALSE,
     transaction_history |-> <<>>]

get_account(accts, account_number) ==
    IF account_number \in DOMAIN accts THEN accts[account_number] ELSE None

account_exists(accts, account_number) == account_number \in DOMAIN accts

\* dict.update(updated_data)
update(account, updated_data) ==
    [f \in DOMAIN account \cup DOMAIN updated_data |->
        IF f \in DOMAIN updated_data THEN updated_data[f] ELSE account[f]]

update_account(accts, account_number, updated_data) ==
    IF account_number \in DOMAIN accts
    THEN [accounts |-> [accts EXCEPT ![account_number] = update(@, updated_data)],
          result |-> TRUE]
    ELSE [accounts |-> accts, result |-> FALSE]

\* mutant: True is returned but the account is not removed
delete_account_keeps(accts, account_number) ==
    IF account_number \in DOMAIN accts
    THEN [accounts |-> accts, result |-> TRUE]
    ELSE [accounts |-> accts, result |-> FALSE]

delete_account(accts, account_number) ==
    IF account_number \in DOMAIN accts
    THEN [accounts |-> [n \in DOMAIN accts \ {account_number} |-> accts[n]],
          result |-> TRUE]
    ELSE [accounts |-> accts, result |-> FALSE]

\* add_transaction calls in one run of the store
MaxStoreAppends == 4

\* account numbers passed to the store functions: two sample accounts, one
\* of them also with blanks around it, and a number that is not in the store
Acct000000 == <<"0", "0", "0", "0", "0", "0">>
StoreNumbers ==
    { Acct123456789, Acct444555666, <<Blank>> \o Acct123456789 \o <<Blank>>, Acct000000 }

\* an account dict without the 'transaction_history' key, as
\* load_account_data returns it for a file that has none
AccountWithoutHistory ==
    [account_number |-> Acct000000, name |-> "Loaded", pin |-> Pin0000,
     balance |-> Dollars(0, 0), failed_attempts |-> 0, locked |-> FALSE]

\* (account, transaction_type, amount, balance_after) of the add_transaction
\* calls: those of LedgerCalls on the first sample account
StoreCalls == {c \in LedgerCalls : c[1] = Acct123456789}

\* what a library call was given and what it returned
Returned(op, acct, arg, value) ==
    [op |-> op, acct |-> acct, msg |-> "returned", remaining |-> -1,
     arg |-> arg, value |-> value]

InitStore ==
    /\ now = 0
    /\ accounts = initialize_sample_data(now)
    /\ ui = "store"
    /\ screen = "none"
    /\ pc = "none"
    /\ atm_account = NoAccount
    /\ login_account = NoAccount
    /\ new_pin = NoPin
    /\ out = Report("start", NoAccount, "")
    /\ wrong_streak = [a \in DOMAIN accounts |-> 0]

\* add_transaction on an account of the store
add_transaction_store_call(account_number, transaction_type, amount, balance_after) ==
    /\ ui = "store"
    /\ now < MaxStoreAppends
    /\ account_number \in DOMAIN accounts
    /\ accounts' = [accounts EXCEPT ![account_number] =
            add_transaction(@, transaction_type, amount, balance_after, now)]
    /\ now' = now + 1
    /\ out' = Report("add_transaction", account_number, transaction_type)
    /\ UNCHANGED <<ui, screen, pc, atm_account, login_account, new_pin, wrong_streak>>

\* the account dict a caller of get_mini_statement holds under number n:
\* the one of the store, else the dict without history
CallerAccount(n) ==
    IF n \in DOMAIN accounts THEN accounts[n] ELSE AccountWithoutHistory

\* get_mini_statement on an account of the store or on an account dict
\* without history
get_mini_statement_call(account) ==
    /\ ui = "store"
    /\ out' = Returned("get_mini_statement", account.account_number, account,
                       get_mini_statement(account))
    /\ UNCHANGED <<accounts, ui, screen, pc, atm_account, login_account, new_pin, now, wrong_streak>>

save_account_data_call(ok) ==
    /\ ui = "store"
    /\ LET saved == save_account_data(accounts, ok) IN
       /\ accounts' = saved.accounts
       /\ out' = Returned("save_account_data", NoAccount, accounts, saved.result)
                    @@ [file |-> saved.file]
    /\ UNCHANGED <<ui, screen, pc, atm_account, login_account, new_pin, now, wrong_streak>>

\* load_account_data right after save_account_data, on the file that call
\* left: the content it wrote, or no readable file when it failed
load_account_data_call ==
    /\ ui = "store"
    /\ out.op = "save_account_data"
    /\ LET file == IF out.value THEN out.file ELSE None IN
       out' = Returned("load_account_data", NoAccount, [saved |-> out.arg, file |-> file],
                       load_account_data(file))
    /\ UNCHANGED <<accounts, ui, screen, pc, atm_account, login_account, new_pin, now, wrong_streak>>

\* create_new_account: the store is not among its arguments
create_new_account_call(account_number, pin, initial_balance) ==
    /\ ui = "store"
    /\ out' = Returned("create_new_account", account_number, <<account_number, pin, initial_balance>>,
                       create_new_account(account_number, "New Holder", pin, initial_balance))
    /\ UNCHANGED <<accounts, ui, screen, pc, atm_account, login_account, new_pin, now, wrong_streak>>

get_account_call(account_number) ==
    /\ ui = "store"
    /\ out' = Returned("get_account", account_number, account_number,
                       get_account(accounts, account_number))
    /\ UNCHANGED <<accounts, ui, screen, pc, atm_account, login_account, new_pin, now, wrong_streak>>

account_exists_call(account_number) ==
    /\ ui = "store"
    /\ out' = Returned("account_exists", account_number, account_number,
                       account_exists(accounts, account_number))
    /\ UNCHANGED <<accounts, ui, screen, pc, atm_account, login_account, new_pin, now, wrong_streak>>

update_account_call(account_number, updated_data) ==
    /\ ui = "store"
    /\ LET updated == update_account(accounts, account_number, updated_data) IN
       /\ accounts' = updated.accounts
       /\ out' = Returned("update_account", account_number, updated_data, updated.result)
    /\ UNCHANGED <<ui, screen, pc, atm_account, login_account, new_pin, now, wrong_streak>>

delete_account_call(account_number) ==
    /\ ui = "store"
    /\ LET deleted == delete_account(accounts, account_number) IN
       /\ accounts' = deleted.accounts
       /\ out' = Returned("delete_account", account_number, account_number, deleted.result)
    /\ UNCHANGED <<ui, screen, pc, atm_account, login_account, new_pin, now, wrong_streak>>

NextStore ==
    \/ \E c \in StoreCalls : add_transaction_store_call(c[1], c[2], c[3], c[4])
    \/ \E n \in StoreNumbers : get_mini_statement_call(CallerAccount(n))
    \/ \E ok \in BOOLEAN : save_account_data_call(ok)
    \/ load_account_data_call
    \/ \E n \in StoreNumbers : create_new_account_call(n, Pin0000, Dollars(0, 0))
    \/ \E n \in StoreNumbers : get_account_call(n)
    \/ \E n \in StoreNumbers : account_exists_call(n)
    \/ \E n \in StoreNumbers : update_account_call(n, [name |-> "Renamed"])
    \/ \E n \in StoreNumbers : delete_account_call(n)

SpecStore == InitStore /\ [][NextStore]_vars

-----------------------------------------------------------------------------
(* transaction_manager.py: get_transaction_summary called on the sample    *)
(* store on any day of the year, after add_transaction calls of that day   *)

\* entries a history holds at most when add_transaction is called on it
MaxSummaryEntries == 4

\* the days argument: today only, 3 days, a week, the default 30
SummaryDays == {0, 3, 7, 30}

\* accounts summarised: two with a history, one without entries, and an
\* account dict that has no history key
SummaryNumbers == { Acct123456789, Acct987654321, Acct111222333, Acct000000 }

\* (account, transaction_type, amount, balance_after) of the add_transaction
\* calls: a deposit and a PIN change on the first sample account
SummaryCalls ==
    { <<Acct123456789, "Deposit", Dollars(1500, 0), Dollars(3000, 0)>>,
      <<Acct123456789, "PIN Change", Num(0), Dollars(1500, 0)>> }

InitSummary ==
    /\ now \in 1..(DaysBefore(12) + DaysInMonth[12])
    /\ accounts = initialize_sample_data(now)
    /\ ui = "summary"
    /\ screen = "none"
    /\ pc = "none"
    /\ atm_account = NoAccount
    /\ login_account = NoAccount
    /\ new_pin = NoPin
    /\ out = Report("start", NoAccount, "")
    /\ wrong_streak = [a \in DOMAIN accounts |-> 0]

\* add_transaction on an account of the store, today
add_transaction_summary_call(account_number, transaction_type, amount, balance_after) ==
    /\ ui = "summary"
    /\ Len(accounts[account_number].transaction_history) < MaxSummaryEntries
    /\ accounts' = [accounts EXCEPT ![account_number] =
            add_transaction(@, transaction_type, amount, balance_after, now)]
    /\ out' = Report("add_transaction", account_number, transaction_type)
    /\ UNCHANGED <<ui, screen, pc, atm_account, login_account, new_pin, now, wrong_streak>>

\* get_transaction_summary on an account of the store or on an account dict
\* without history
get_transaction_summary_call(account, days) ==
    /\ ui = "summary"
    /\ out' = Returned("get_transaction_summary", account.account_number,
                       [account |-> account, days |-> days],
                       get_transaction_summary(account, days, now))
    /\ UNCHANGED <<accounts, ui, screen, pc, atm_account, login_account, new_pin, now, wrong_streak>>

NextSummary ==
    \/ \E c \in SummaryCalls : add_transaction_summary_call(c[1], c[2], c[3], c[4])
    \/ \E n \in SummaryNumbers, days \in SummaryDays :
          get_transaction_summary_call(CallerAccount(n), days)

SpecSummary == InitSummary /\ [][NextSummary]_vars

-----------------------------------------------------------------------------
(* Properties *)

Last(h) == h[Len(h)]

\* this step is a login attempt addressed to account a with PIN p: the
\* Login button with both fields filled, or (terminal) the account number
\* prompt answered with a / the PIN prompt answered with the well-formed p.
\* (The tests of screen, pc and out' repeat what the actions state; they
\* come first so that the actions are evaluated on few steps.)
GuiLoginAttempt(a, p) ==
    /\ screen = "login"
    /\ out'.op = "handle_login"
    /\ out'.acct = a
    /\ p # <<>>
    /\ a # <<>>
    /\ \E x \in AccountInputs : strip(x) = a /\ ATMInterface_handle_login(x, p)

CliAccountEntry(a) ==
    /\ pc = "login_account"
    /\ out'.acct = a
    /\ \E x \in AccountInputs : strip(x) = a /\ login_user_account(x)

CliPinEntry(a, p) ==
    /\ pc = "login_pin"
    /\ login_account = a
    /\ validate_pin(p)
    /\ login_user_pin(p)

\* C1: every account's balance is >= 0 in every reachable state.
C1_BalanceNonNegative ==
    \A a \in DOMAIN accounts : FGe(accounts[a].balance, Num(0))

\* C2: three wrong-PIN login attempts in a row on an account leave it
\* locked, and a login attempt on a locked account is rejected as locked
\* and leaves failed_attempts unchanged.
C2_ThreeWrongPinsLock ==
    /\ [](\A a \in DOMAIN accounts : wrong_streak[a] >= 3 => accounts[a].locked)
    /\ [][\A a \in DOMAIN accounts :
            (accounts[a].locked /\ ((\E p \in PinInputs : GuiLoginAttempt(a, p)) \/ CliAccountEntry(a)))
            => /\ out'.msg = "Account locked"
               /\ accounts'[a].failed_attempts = accounts[a].failed_attempts]_vars

\* C2 witness: the account that started with failed_attempts = 0 took three
\* wrong PINs, is locked, and a fourth attempt on it was answered "locked"
C2_Witness ==
    /\ wrong_streak[Acct123456789] = 3
    /\ accounts[Acct123456789].locked
    /\ accounts[Acct123456789].failed_attempts = 3
    /\ out.acct = Acct123456789
    /\ out.msg = "Account locked"


\* C3: a locked account stays locked, and a login attempt on it, whatever
\* the PIN (the stored one included), is answered "locked" without a PIN
\* prompt, without a session and without any change to the store.
C3_LockedStaysLocked ==
    [][\A a \in DOMAIN accounts :
        accounts[a].locked =>
            /\ a \in DOMAIN accounts'
            /\ accounts'[a].locked
            /\ \A p \in PinInputs :
                (GuiLoginAttempt(a, p) \/ CliAccountEntry(a)) =>
                    /\ out'.msg = "Account locked"
                    /\ atm_account' = NoAccount
                    /\ pc' # "login_pin"
                    /\ screen' = screen
                    /\ accounts' = accounts]_vars

\* C3 witness: the sample account that is locked from the start was
\* addressed by a login attempt, which was answered "locked"
C3_Witness ==
    /\ accounts[Acct444555666].locked
    /\ accounts[Acct444555666].pin \in PinInputs
    /\ out.op \in {"handle_login", "login_user"}
    /\ out.acct = Acct444555666
    /\ out.msg = "Account locked"
    /\ atm_account = NoAccount

\* C4: a login attempt with the stored PIN on an unlocked account succeeds,
\* makes that account the session account and sets failed_attempts to 0,
\* leaving every other field as it was.
C4_CorrectPinLogsIn ==
    [][\A a \in DOMAIN accounts : \A p \in PinInputs :
        (/\ ~accounts[a].locked
         /\ accounts[a].pin = p
         /\ GuiLoginAttempt(a, p) \/ CliPinEntry(a, p))
        => /\ out'.msg = "Login successful"
           /\ atm_account' = a
           /\ accounts' = [accounts EXCEPT ![a].failed_attempts = 0]
           /\ (ui = "gui" => screen' = "menu")
           /\ (ui = "cli" => pc' = "menu")]_vars

\* C4 witness: the sample account that starts with failed_attempts = 2 has
\* just logged in and its counter is 0
C4_Witness ==
    /\ out.msg = "Login successful"
    /\ out.acct = Acct111222333
    /\ atm_account = Acct111222333
    /\ accounts[Acct111222333].failed_attempts = 0
    /\ now = 0

\* C5: a login attempt with a wrong PIN on an unlocked account adds exactly
\* 1 to failed_attempts; at 3 the account is locked, below 3 it stays
\* unlocked and the attempts left that are reported are 3 minus the new count.
C5_WrongPinCounts ==
    [][\A a \in DOMAIN accounts : \A p \in PinInputs :
        (/\ ~accounts[a].locked
         /\ accounts[a].pin # p
         /\ GuiLoginAttempt(a, p) \/ CliPinEntry(a, p))
        => LET n == accounts[a].failed_attempts + 1 IN
           /\ accounts'[a].failed_attempts = n
           /\ IF n = 3
              THEN accounts'[a].locked
              ELSE /\ ~accounts'[a].locked
                   /\ out'.msg = "Incorrect PIN"
                   /\ out'.remaining = 3 - n]_vars

\* C5 witness: after two wrong PINs on the first sample account, 1 attempt
\* left is reported and the account is not locked
C5_Witness ==
    /\ out.msg = "Incorrect PIN"
    /\ out.acct = Acct123456789
    /\ out.remaining = 1
    /\ accounts[Acct123456789].failed_attempts = 2
    /\ ~accounts[Acct123456789].locked

AccountOps == {"deposit_money", "withdraw_money", "view_balance", "mini_statement", "change_pin"}

\* C6: failed_attempts and locked change only in a login attempt on that
\* account: the count goes up only by 1, by a wrong PIN on the unlocked
\* account, and down only to 0, by a successful login; deposit, withdraw,
\* balance view, mini statement and PIN change (refused ones included) leave
\* both unchanged.
C6_FailedAttemptsFrame ==
    [][\A a \in DOMAIN accounts :
        LET old == accounts[a]
            new == accounts'[a]
        IN  /\ (new.failed_attempts # old.failed_attempts \/ new.locked # old.locked)
                => out'.op \in {"handle_login", "login_user"} /\ out'.acct = a
            /\ new.failed_attempts > old.failed_attempts
                => /\ ~old.locked
                   /\ new.failed_attempts = old.failed_attempts + 1
                   /\ \E p \in PinInputs :
                        p # old.pin /\ (GuiLoginAttempt(a, p) \/ CliPinEntry(a, p))
            /\ new.failed_attempts < old.failed_attempts
                => new.failed_attempts = 0 /\ out'.msg = "Login successful"
            /\ out'.op \in AccountOps
                => new.failed_attempts = old.failed_attempts /\ new.locked = old.locked]_vars

\* C6 witness: a PIN change was refused for a wrong current PIN and the
\* session account still has failed_attempts = 0 and is not locked
C6_Witness ==
    /\ out.op = "change_pin"
    /\ out.msg = "Current PIN is incorrect"
    /\ out.acct = atm_account
    /\ accounts[atm_account].failed_attempts = 0
    /\ ~accounts[atm_account].locked

\* C7: a login attempt with an account number that is not in the store
\* changes no account and gives no session, and a well-formed one is
\* answered "not found"; a login attempt on a locked account changes no
\* account either.
C7_UnknownOrLockedNoChange ==
    [][/\ \A x \in AccountInputs : \A p \in PinInputs :
            (/\ strip(x) \notin DOMAIN accounts
             /\ screen = "login"
             /\ out'.acct = strip(x)
             /\ ATMInterface_handle_login(x, p))
            => /\ accounts' = accounts
               /\ atm_account' = atm_account
               /\ (strip(x) # <<>> /\ p # <<>> => out'.msg = "Account not found")
       /\ \A x \in AccountInputs :
            (/\ strip(x) \notin DOMAIN accounts
             /\ pc = "login_account"
             /\ out'.acct = strip(x)
             /\ login_user_account(x))
            => /\ accounts' = accounts
               /\ atm_account' = atm_account
               /\ pc' = "login_account"
               /\ (validate_account_number(strip(x)) => out'.msg = "Account not found")
       /\ \A a \in DOMAIN accounts : \A p \in PinInputs :
            (accounts[a].locked /\ (GuiLoginAttempt(a, p) \/ CliAccountEntry(a)))
            => accounts' = accounts]_vars

\* C7 witness: a login attempt named an account number that is not in the
\* store and was answered "not found"
C7_Witness ==
    /\ out.op \in {"handle_login", "login_user"}
    /\ out.msg = "Account not found"
    /\ out.acct \notin DOMAIN accounts
    /\ atm_account = NoAccount

Committed == {"Deposit successful", "Withdrawal successful", "PIN changed successfully"}

\* C9: every committed deposit, withdrawal and PIN change appends exactly
\* one entry, whose balance_after is the balance right after the operation;
\* so the newest entry of a non-empty history carries the current balance.
C9_LedgerRecordsBalance ==
    /\ [](\A a \in DOMAIN accounts :
            accounts[a].transaction_history # <<>>
            => Last(accounts[a].transaction_history).balance_after = accounts[a].balance)
    /\ [][(out'.msg \in Committed /\ now' # now) =>
            LET h == accounts[out'.acct].transaction_history
                hh == accounts'[out'.acct].transaction_history
            IN  /\ Len(hh) = Len(h) + 1
                /\ SubSeq(hh, 1, Len(h)) = h
                /\ Last(hh).balance_after = accounts'[out'.acct].balance
                /\ Last(hh).type =
                     CASE out'.op = "deposit_money" -> "Deposit"
                       [] out'.op = "withdraw_money" -> "Withdrawal"
                       [] out'.op = "change_pin" -> "PIN Change"]_vars

\* C9 witness: a withdrawal of the whole balance was committed and the
\* newest entry is that withdrawal with the balance it left
C9_Witness ==
    /\ out.msg = "Withdrawal successful"
    /\ out.acct = Acct123456789
    /\ accounts[Acct123456789].balance = Dollars(0, 0)
    /\ Last(accounts[Acct123456789].transaction_history).type = "Withdrawal"
    /\ Last(accounts[Acct123456789].transaction_history).balance_after = Dollars(0, 0)
    /\ Len(accounts[Acct123456789].transaction_history) = 4

\* C10: a deposit of an amount > 0 that passed the input check commits: the
\* balance becomes old balance + amount, one Deposit entry with that amount
\* and the new balance is appended, nothing else of the account changes.
C10_DepositCommits ==
    [][\A s \in AmountInputs :
        LET amount == float(s) IN
        (/\ out'.op = "deposit_money"
         /\ amount.k # "ValueError"
         /\ FGt(amount, Num(0))
         /\ ATMInterface_deposit_money(s) \/ (validate_amount(s) /\ ATMOperations_deposit_money(s)))
        => LET old == accounts[atm_account]
               balance == FAdd(old.balance, amount)
               entry == [date |-> DateTime(now), type |-> "Deposit",
                         amount |-> amount, balance_after |-> balance]
           IN  /\ out'.msg = "Deposit successful"
               /\ Len(old.transaction_history) < 10
               /\ accounts' = [accounts EXCEPT ![atm_account] =
                        [old EXCEPT !.balance = balance,
                                    !.transaction_history = Append(@, entry)]]]_vars

\* C10 witness: 1500 was deposited on the account holding 1500; the balance
\* is 3000 and the newest entry is a Deposit of 1500 with balance_after 3000
C10_Witness ==
    /\ out.op = "deposit_money"
    /\ out.msg = "Deposit successful"
    /\ out.acct = Acct123456789
    /\ accounts[Acct123456789].balance = Dollars(3000, 0)
    /\ Len(accounts[Acct123456789].transaction_history) = 4
    /\ Last(accounts[Acct123456789].transaction_history).type = "Deposit"
    /\ Last(accounts[Acct123456789].transaction_history).amount = Dollars(1500, 0)
    /\ Last(accounts[Acct123456789].transaction_history).balance_after = Dollars(3000, 0)


\* C8: a history never holds more than 10 entries, and each add_transaction
\* call puts the new entry last and keeps the entries before it in their
\* order, dropping from the front exactly those beyond the newest 10; the
\* other accounts are left alone.
C8_HistoryKeepsNewestTen ==
    /\ [](\A a \in DOMAIN accounts : Len(accounts[a].transaction_history) <= 10)
    /\ [][out'.op = "add_transaction" /\ now' # now =>
            LET a == out'.acct
                h == accounts[a].transaction_history
                hh == accounts'[a].transaction_history
                dropped == IF Len(h) + 1 > 10 THEN Len(h) + 1 - 10 ELSE 0
            IN  /\ Len(hh) = Len(h) + 1 - dropped
                /\ Last(hh).date = DateTime(now)
                /\ Last(hh).type = out'.msg
                /\ \A i \in 1..(Len(hh) - 1) : hh[i] = h[i + dropped]
                /\ \A b \in DOMAIN accounts \ {a} : accounts'[b] = accounts[b]]_vars

\* C8 witness: the first sample account, which starts with 3 entries, holds
\* 10 after a 9th call: its two oldest entries are gone, the third one is
\* now first and the entry of the 9th call is last
C8_Witness ==
    /\ now = 9
    /\ Len(accounts[Acct123456789].transaction_history) = 10
    /\ accounts[Acct123456789].transaction_history[1].date = DateTime(0 - 1)
    /\ accounts[Acct123456789].transaction_history[2].date = DateTime(0)
    /\ Last(accounts[Acct123456789].transaction_history).date = DateTime(8)

-----------------------------------------------------------------------------
(* Properties of the account operations *)

\* this step is withdraw_money / deposit_money deciding on the text s.
\* (The tests of screen and pc come first so that the actions are evaluated
\* on few steps.)
WithdrawRequest(s) ==
    \/ screen = "menu" /\ out'.op = "withdraw_money" /\ ATMInterface_withdraw_money(s)
    \/ pc = "withdraw_money" /\ ATMOperations_withdraw_money(s)

DepositRequest(s) ==
    \/ screen = "menu" /\ out'.op = "deposit_money" /\ ATMInterface_deposit_money(s)
    \/ pc = "deposit_money" /\ ATMOperations_deposit_money(s)

\* the text passed the input check of the front end and float() parsed it
Parsed(s) ==
    /\ float(s).k # "ValueError"
    /\ ui = "cli" => validate_amount(s)

\* C11: a withdrawal request with a parsed amount succeeds exactly when
\* 0 < amount <= balance, and then the balance becomes old balance - amount
\* and one Withdrawal entry with that amount and the new balance is appended.
C11_WithdrawExactlyWhenCovered ==
    [][\A s \in AmountInputs :
        (WithdrawRequest(s) /\ Parsed(s)) =>
            LET amount == float(s)
                old == accounts[atm_account]
                balance == FSub(old.balance, amount)
                entry == [date |-> DateTime(now), type |-> "Withdrawal",
                          amount |-> amount, balance_after |-> balance]
            IN  /\ out'.msg = "Withdrawal successful"
                    <=> (FGt(amount, Num(0)) /\ FLe(amount, old.balance))
                /\ out'.msg = "Withdrawal successful"
                    => accounts' = [accounts EXCEPT ![atm_account] =
                            [old EXCEPT !.balance = balance,
                                        !.transaction_history = Append(@, entry)]]]_vars

\* C12: a deposit or withdrawal request that is refused (the text is not a
\* number, amount <= 0, withdrawal amount > balance) changes nothing in the
\* store; a request changes the balance only together with the ledger: either
\* the store is unchanged, or the balance is the old one plus / minus the
\* amount and exactly one entry is appended.
C12_RefusedChangesNothing ==
    [][\A s \in AmountInputs :
        (WithdrawRequest(s) \/ DepositRequest(s)) =>
            LET amount == float(s)
                old == accounts[atm_account]
                new == accounts'[atm_account]
                refused == \/ amount.k = "ValueError"
                           \/ FLe(amount, Num(0))
                           \/ out'.op = "withdraw_money" /\ FGt(amount, old.balance)
            IN  /\ refused => accounts' = accounts /\ out'.msg \notin Committed
                /\ \/ accounts' = accounts
                   \/ /\ new.balance = IF out'.op = "deposit_money"
                                       THEN FAdd(old.balance, amount)
                                       ELSE FSub(old.balance, amount)
                      /\ Len(new.transaction_history) = Len(old.transaction_history) + 1
                      /\ SubSeq(new.transaction_history, 1, Len(old.transaction_history))
                            = old.transaction_history
                      /\ Last(new.transaction_history).balance_after = new.balance]_vars

\* C12 witness: the first sample account was emptied by a withdrawal of 1500
\* and a second withdrawal of 1500 was refused for insufficient funds; the
\* balance is still 0 and the history still has its 4 entries
C12_Witness ==
    /\ out.op = "withdraw_money"
    /\ out.msg = "Insufficient funds"
    /\ out.acct = Acct123456789
    /\ accounts[Acct123456789].balance = Dollars(0, 0)
    /\ Len(accounts[Acct123456789].transaction_history) = 4
    /\ Last(accounts[Acct123456789].transaction_history).type = "Withdrawal"

\* The program driven through login and PIN change alone (no deposit,
\* withdrawal or view): the same start and the same handlers as Spec.
NextPin ==
    \/ ATMInterface_display_login
    \/ \E a \in AccountInputs, p \in PinInputs : ATMInterface_handle_login(a, p)
    \/ \E c \in PinInputs, p \in PinInputs, q \in PinInputs : ATMInterface_change_pin(c, p, q)
    \/ login_user_call
    \/ \E a \in AccountInputs : login_user_account(a)
    \/ \E p \in PinInputs : login_user_pin(p)
    \/ ATMOperations_call("change_pin")
    \/ \E p \in PinInputs : ATMOperations_change_pin_current(p)
    \/ \E p \in PinInputs : ATMOperations_change_pin_new(p)
    \/ \E p \in PinInputs : ATMOperations_change_pin_confirm(p)
    \/ ATMOperations_exit_program

SpecPin == Init /\ [][NextPin]_vars

SamePin == "New PIN cannot be the same as current PIN"

\* C13: a PIN change is refused, with the store unchanged, when the current
\* PIN entered differs from the stored PIN, else when the new PIN equals the
\* stored PIN, else when the new PIN differs from its confirmation; so
\* current = new = confirm = stored PIN is refused as same-PIN.
C13_PinChangeRefusals ==
    [][/\ \A c \in PinInputs, p \in PinInputs, q \in PinInputs :
            (screen = "menu" /\ out'.op = "change_pin" /\ ATMInterface_change_pin(c, p, q)) =>
                LET stored == accounts[atm_account].pin IN
                /\ (c # stored \/ p = stored \/ p # q)
                    => accounts' = accounts /\ out'.msg # "PIN changed successfully"
                /\ (c # <<>> /\ c # stored) => out'.msg = "Current PIN is incorrect"
                /\ (c = stored /\ p = stored) => out'.msg = SamePin
                /\ (c = stored /\ p # <<>> /\ p # stored /\ q # <<>> /\ p # q)
                    => out'.msg = "PINs do not match"
       /\ \A p \in PinInputs :
            LET stored == accounts[atm_account].pin IN
            /\ (pc = "change_pin" /\ p # stored /\ ATMOperations_change_pin_current(p))
                => /\ accounts' = accounts
                   /\ pc' = "menu"
                   /\ out'.msg \in {"Invalid PIN", "Current PIN is incorrect"}
                   /\ (validate_pin(p) => out'.msg = "Current PIN is incorrect")
            /\ (pc = "change_pin_new" /\ p = stored /\ ATMOperations_change_pin_new(p))
                => /\ accounts' = accounts
                   /\ pc' # "change_pin_confirm"
                   /\ out'.msg = SamePin
            /\ (pc = "change_pin_confirm" /\ p # new_pin /\ ATMOperations_change_pin_confirm(p))
                => /\ accounts' = accounts
                   /\ out'.msg = "PINs do not match"]_vars

\* C13 witness: on the first sample account a PIN change naming the stored
\* PIN 1234 as the new PIN was refused as same-PIN; the PIN is still 1234
\* and the history still has its 3 entries
C13_Witness ==
    /\ out.op = "change_pin"
    /\ out.msg = SamePin
    /\ out.acct = Acct123456789
    /\ accounts[Acct123456789].pin = Pin1234
    /\ Len(accounts[Acct123456789].transaction_history) = 3

\* C14: a successful PIN change sets the stored PIN to the new PIN entered
\* (which was confirmed and differs from the old one), leaves the balance
\* and every other field unchanged, and appends exactly one PIN Change entry
\* with amount 0 and balance_after equal to the balance.
C14_PinChangeCommits ==
    [][out'.msg = "PIN changed successfully" =>
        LET old == accounts[atm_account]
            new == accounts'[atm_account]
            entry == [date |-> DateTime(now), type |-> "PIN Change",
                      amount |-> Num(0), balance_after |-> old.balance]
        IN  /\ new.pin # old.pin
            /\ ui = "cli" =>
                /\ new.pin = new_pin
                /\ \A q \in PinInputs : ATMOperations_change_pin_confirm(q) => q = new_pin
            /\ ui = "gui" =>
                \A c \in PinInputs, p \in PinInputs, q \in PinInputs :
                    ATMInterface_change_pin(c, p, q)
                        => new.pin = p /\ c = old.pin /\ q = p
            /\ new.balance = old.balance
            /\ Len(old.transaction_history) < 10
            /\ accounts' = [accounts EXCEPT ![atm_account] =
                    [old EXCEPT !.pin = new.pin,
                                !.transaction_history = Append(@, entry)]]]_vars

\* C14 witness: the PIN of the first sample account was changed from 1234
\* to 0000; the balance is still 1500 and the newest entry is a PIN Change
\* with amount 0 and balance_after 1500
C14_Witness ==
    /\ out.msg = "PIN changed successfully"
    /\ out.acct = Acct123456789
    /\ accounts[Acct123456789].pin = Pin0000
    /\ accounts[Acct123456789].balance = Dollars(1500, 0)
    /\ Len(accounts[Acct123456789].transaction_history) = 4
    /\ Last(accounts[Acct123456789].transaction_history).type = "PIN Change"
    /\ Last(accounts[Acct123456789].transaction_history).amount = Num(0)
    /\ Last(accounts[Acct123456789].transaction_history).balance_after = Dollars(1500, 0)

\* C16: view_balance and mini_statement are pure reads: the step changes no
\* account of the store (no field, no entry added, removed or reordered)
\* and keeps the session.
C16_ReadsChangeNothing ==
    [][out'.op \in {"view_balance", "mini_statement"} =>
        /\ accounts' = accounts
        /\ atm_account' = atm_account]_vars

\* C16 witness: the mini statement of the first sample account was shown
\* and the account still holds its three entries in their order
C16_Witness ==
    /\ out.op = "mini_statement"
    /\ out.msg = "Statement"
    /\ out.acct = Acct123456789
    /\ accounts[Acct123456789] = initialize_sample_data(0)[Acct123456789]

\* C18: every amount text that validate_amount accepts is either committed
\* or refused by deposit_money / withdraw_money with the store unchanged;
\* the operation never ends in an unhandled error.
C18_AcceptedAmountHandled ==
    [][\A s \in AmountInputs :
        (/\ pc \in {"deposit_money", "withdraw_money"}
         /\ validate_amount(s)
         /\ ATMOperations_deposit_money(s) \/ ATMOperations_withdraw_money(s))
        => /\ pc' # "raised"
           /\ out'.msg \in Committed \/ accounts' = accounts]_vars

-----------------------------------------------------------------------------
(* Properties of the ledger and the store functions *)

\* C15: get_mini_statement returns the last min(5, n) entries of an n-entry
\* history, most recent first, and the empty sequence when the history is
\* empty or absent; the account is left as it was.
C15_MiniStatementNewestFirst ==
    [][out'.op = "get_mini_statement" =>
        LET account == out'.arg
            statement == out'.value
        IN  /\ accounts' = accounts
            /\ IF "transaction_history" \notin DOMAIN account
               THEN statement = <<>>
               ELSE LET h == account.transaction_history
                        n == Len(h)
                        k == IF n < 5 THEN n ELSE 5
                    IN  /\ Len(statement) = k
                        /\ \A i \in 1..k : statement[i] = h[n + 1 - i]]_vars

\* C15 witness: on a history of 7 entries T1..T7 the statement is
\* T7, T6, T5, T4, T3
C15_Witness ==
    /\ out.op = "get_mini_statement"
    /\ "transaction_history" \in DOMAIN out.arg
    /\ Len(out.arg.transaction_history) = 7
    /\ out.value = << out.arg.transaction_history[7], out.arg.transaction_history[6],
                      out.arg.transaction_history[5], out.arg.transaction_history[4],
                      out.arg.transaction_history[3] >>
    /\ out.value[1].date = DateTime(3)
    /\ out.value[5].date = DateTime(0 - 1)

\* C17: a ledger entry is never modified after its creation: whatever a
\* step does (save_account_data included), the entries an account held
\* before the step and still holds after it have the same date, type, amount
\* and balance_after.
C17_EntriesNeverModified ==
    [][\A n \in DOMAIN accounts \cap DOMAIN accounts' :
        LET h == accounts[n].transaction_history
            hh == accounts'[n].transaction_history
            appended == IF out'.op = "add_transaction" /\ out'.acct = n THEN 1 ELSE 0
            dropped == Len(h) + appended - Len(hh)
        IN  \A i \in 1..(Len(h) - dropped) : hh[i] = h[i + dropped]]_vars

\* C19: creating an account under a number that is already in the store
\* fails (no account is returned) and leaves the store as it was.
C19_DuplicateCreateFails ==
    [][(out'.op = "create_new_account" /\ out'.acct \in DOMAIN accounts) =>
        /\ "account_number" \notin DOMAIN out'.value
        /\ accounts' = accounts]_vars

\* C20: delete_account on a number of the store returns True and removes
\* exactly that account (get_account and account_exists then report it
\* absent, the other accounts are unchanged); on any other number it returns
\* False and leaves the store unchanged.  get_account returns the account
\* stored under exactly the number given, or None; account_exists tells
\* whether the number is a key.
C20_DeleteAndLookup ==
    [][LET n == out'.acct IN
       /\ out'.op = "delete_account" =>
            IF n \in DOMAIN accounts
            THEN /\ out'.value = TRUE
                 /\ DOMAIN accounts' = DOMAIN accounts \ {n}
                 /\ \A m \in DOMAIN accounts' : accounts'[m] = accounts[m]
                 /\ get_account(accounts', n) = None
                 /\ ~account_exists(accounts', n)
            ELSE /\ out'.value = FALSE
                 /\ accounts' = accounts
       /\ out'.op = "get_account" =>
            /\ accounts' = accounts
            /\ IF n \in DOMAIN accounts
               THEN out'.value = accounts[n] /\ out'.value.account_number = n
               ELSE out'.value = None
       /\ out'.op = "account_exists" =>
            /\ accounts' = accounts
            /\ out'.value = (n \in DOMAIN accounts)]_vars

\* C20 witness: the first sample account was deleted (True returned), the
\* other four accounts are as they started
C20_Witness ==
    /\ out.op = "delete_account"
    /\ out.acct = Acct123456789
    /\ out.value = TRUE
    /\ DOMAIN accounts = DOMAIN initialize_sample_data(0) \ {Acct123456789}
    /\ \A m \in DOMAIN accounts : accounts[m] = initialize_sample_data(0)[m]

\* the datetime a date of a saved collection stands for
SavedDate(date) == IF date.kind = "str" THEN fromisoformat(date) ELSE date

-----------------------------------------------------------------------------
(* Properties of the stored PIN and of the operations' prompts *)

\* C22: in every state reached through logins and PIN changes, made through
\* ATMOperations.change_pin or through the GUI's change_pin, the stored PIN
\* of every account is a string of exactly 4 digits.
C22_StoredPinFourDigits ==
    \A a \in DOMAIN accounts : validate_pin(accounts[a].pin)


\* the answers by which deposit_money, withdraw_money and change_pin refuse
\* an amount or a PIN
RefusalMessages ==
    { "Invalid amount", "Deposit amount must be greater than zero",
      "Withdrawal amount must be greater than zero", "Insufficient funds",
      "Invalid PIN", "Current PIN is incorrect",
      "New PIN cannot be the same as current PIN", "PINs do not match" }

\* C23: an invocation of ATMOperations.deposit_money, withdraw_money or
\* change_pin handles one request: when it refuses the amount or the PIN it
\* was given it returns to its caller (the menu), it does not ask again.
C23_RefusalReturns ==
    [][(/\ ui = "cli"
        /\ pc \in {"deposit_money", "withdraw_money", "change_pin", "change_pin_new", "change_pin_confirm"}
        /\ out'.msg \in RefusalMessages)
       => pc' = "menu"]_vars

-----------------------------------------------------------------------------
(* Properties of get_transaction_summary *)

\* the entries of history of the given type dated at or after the cutoff
InWindow(history, type, cutoff) ==
    {i \in 1..Len(history) : history[i].type = type /\ history[i].date.t >= cutoff.t}

\* the sum of the amounts of the entries is of history, in history order
RECURSIVE SumAmounts(_, _, _)
SumAmounts(history, is, i) ==
    IF i > Len(history) THEN Num(0)
    ELSE LET rest == SumAmounts(history, is, i + 1) IN
         IF i \in is THEN FAdd(history[i].amount, rest) ELSE rest

\* a summary was returned for an account with a history
SummaryReturned ==
    /\ out'.op = "get_transaction_summary"
    /\ "transaction_history" \in DOMAIN out'.arg.account
    /\ "k" \notin DOMAIN out'.value

\* the counts and totals of the Deposit and Withdrawal entries in a summary
\* are those of the entries dated at or after the cutoff
SummaryCountsRight ==
    [][SummaryReturned =>
        LET h == out'.arg.account.transaction_history
            cutoff == cutoff_date(now, out'.arg.days)
            summary == out'.value
        IN  /\ summary.deposit_count = Cardinality(InWindow(h, "Deposit", cutoff))
            /\ summary.total_deposits = SumAmounts(h, InWindow(h, "Deposit", cutoff), 1)
            /\ summary.withdrawal_count = Cardinality(InWindow(h, "Withdrawal", cutoff))
            /\ summary.total_withdrawals = SumAmounts(h, InWindow(h, "Withdrawal", cutoff), 1)]_vars

C27_SummaryEveryDate ==
    [][(/\ out'.op = "get_transaction_summary"
        /\ "transaction_history" \in DOMAIN out'.arg.account
        /\ out'.arg.days >= 0)
       => /\ out'.value # ValueError
          /\ cutoff_date(now, out'.arg.days) = DateTime(now - timedelta(out'.arg.days))]_vars

-----------------------------------------------------------------------------
(* Properties of the limits *)

\* typed amounts around the limits of is_valid_transaction_amount: 500,
\* 1500 (the balance of the first sample account) and 6000
LimitAmountInputs ==
    { <<"5", "0", "0">>, <<"1", "5", "0", "0">>, <<"6", "0", "0", "0">> }

\* The program driven through login, deposit and withdrawal alone, on the
\* first sample account: the same start and the same handlers as Spec.
NextLimits ==
    \/ ATMInterface_display_login
    \/ \E p \in {Pin1234, Pin0000} : ATMInterface_handle_login(Acct123456789, p)
    \/ \E s \in LimitAmountInputs : ATMInterface_deposit_money(s)
    \/ \E s \in LimitAmountInputs : ATMInterface_withdraw_money(s)
    \/ login_user_call
    \/ login_user_account(Acct123456789)
    \/ \E p \in {Pin1234, Pin0000} : login_user_pin(p)
    \/ \E op \in {"deposit_money", "withdraw_money"} : ATMOperations_call(op)
    \/ \E s \in LimitAmountInputs : ATMOperations_deposit_money(s)
    \/ \E s \in LimitAmountInputs : ATMOperations_withdraw_money(s)

SpecLimits == Init /\ [][NextLimits]_vars

\* C25: the limits of is_valid_transaction_amount are not applied by
\* deposit_money / withdraw_money: a withdrawal request of an amount with
\* 1000 < amount <= balance and a deposit request of an amount > 5000, both
\* refused by is_valid_transaction_amount, are committed.
C25_LimitsNotApplied ==
    [][\A s \in LimitAmountInputs :
        LET amount == float(s)
            old == accounts[atm_account]
        IN  /\ (WithdrawRequest(s) /\ FGt(amount, Dollars(1000, 0)) /\ FLe(amount, old.balance))
               => /\ ~is_valid_transaction_amount(amount, old.balance, "withdrawal").is_valid
                  /\ out'.msg = "Withdrawal successful"
                  /\ accounts'[atm_account].balance = FSub(old.balance, amount)
                  /\ Last(accounts'[atm_account].transaction_history).type = "Withdrawal"
            /\ (DepositRequest(s) /\ FGt(amount, Dollars(5000, 0)))
               => /\ ~is_valid_transaction_amount(amount, old.balance, "deposit").is_valid
                  /\ out'.msg = "Deposit successful"
                  /\ accounts'[atm_account].balance = FAdd(old.balance, amount)
                  /\ Last(accounts'[atm_account].transaction_history).type = "Deposit"]_vars

\* C25 witness: a deposit of 6000 and then a withdrawal of 1500 were
\* committed on the first sample account
C25_Witness ==
    LET h == accounts[Acct123456789].transaction_history IN
    /\ out.msg = "Withdrawal successful"
    /\ accounts[Acct123456789].balance = Dollars(6000, 0)
    /\ Len(h) = 5
    /\ h[4].type = "Deposit" /\ h[4].amount = Dollars(6000, 0)
    /\ h[5].type = "Withdrawal" /\ h[5].amount = Dollars(1500, 0)

-----------------------------------------------------------------------------
(* Properties of the login *)

\* C26: in every state reached from the sample accounts through login
\* attempts and account operations, every account has
\* 0 <= failed_attempts <= 3 and is locked exactly when failed_attempts = 3.
C26_AttemptsAndLock ==
    \A a \in DOMAIN accounts :
        /\ accounts[a].failed_attempts >= 0
        /\ accounts[a].failed_attempts <= 3
        /\ accounts[a].locked <=> (accounts[a].failed_attempts = 3)

\* C26 witness: an account that started unlocked was locked by wrong PINs,
\* while another one was logged in to
C26_Witness ==
    /\ accounts[Acct111222333].locked
    /\ accounts[Acct111222333].failed_attempts = 3
    /\ atm_account = Acct123456789
    /\ out.msg \in Committed

\* C29: login_user asks for a PIN only while the account is unlocked with
\* failed_attempts = k < 3; a PIN entry refused by validate_pin is not
\* compared with the stored PIN and changes nothing; a well-formed wrong PIN
\* makes failed_attempts k + 1, and at k + 1 = 3 login_user returns without
\* a session, the account locked: so it evaluates at most 3 - k of them.
C29_CliPinAttempts ==
    [][\A p \in PinInputs :
        (pc = "login_pin" /\ login_user_pin(p)) =>
            LET a == login_account
                k == accounts[a].failed_attempts
            IN  /\ k < 3
                /\ ~accounts[a].locked
                /\ ~validate_pin(p) =>
                        /\ accounts' = accounts
                        /\ pc' = "login_pin"
                        /\ atm_account' = NoAccount
                /\ (validate_pin(p) /\ p # accounts[a].pin) =>
                        /\ accounts' = [accounts EXCEPT ![a].failed_attempts = k + 1,
                                                         ![a].locked = (k + 1 = 3)]
                        /\ atm_account' = NoAccount
                        /\ pc' = IF k + 1 = 3 THEN "idle" ELSE "login_pin"]_vars

\* C29 witness: on the first sample account (k = 0) login_user returned
\* without a session at the third wrong PIN
C29_Witness ==
    /\ ui = "cli"
    /\ pc = "idle"
    /\ out.op = "login_user"
    /\ out.acct = Acct123456789
    /\ atm_account = NoAccount
    /\ wrong_streak[Acct123456789] = 3
    /\ accounts[Acct123456789].failed_attempts = 3
    /\ accounts[Acct123456789].locked

\* login_user from "Check if account is already locked" on, for one PIN
\* entry: the account afterwards and whether it is returned (a session)
login_user_outcome(account, pin) ==
    IF login_user_locked(account) \/ ~(account.failed_attempts < 3)
    THEN [account |-> account, session |-> FALSE]
    ELSE IF ~validate_pin(pin)
    THEN [account |-> account, session |-> FALSE]
    ELSE IF authenticate_user(account, pin)
    THEN [account |-> reset_failed_attempts(account), session |-> TRUE]
    ELSE [account |-> handle_failed_attempt(account).account, session |-> FALSE]

\* handle_login on an account of the store, for one press of Login
handle_login_outcome(account, pin) ==
    IF pin = <<>>
    THEN [account |-> account, session |-> FALSE]
    ELSE IF ATMInterface_locked(account)
    THEN [account |-> account, session |-> FALSE]
    ELSE IF account.pin # pin
    THEN [account |-> ATMInterface_wrong_pin(account), session |-> FALSE]
    ELSE [account |-> ATMInterface_login_success(account), session |-> TRUE]

\* the two outcomes are what the handlers do: every PIN entry of login_user
\* and every press of Login on an account of the store changes the account
\* and grants a session as the outcome says
LoginStepsAreOutcomes ==
    [][\A p \in PinInputs :
        /\ (pc = "login_pin" /\ login_user_pin(p)) =>
                LET outcome == login_user_outcome(accounts[login_account], p) IN
                /\ accounts' = [accounts EXCEPT ![login_account] = outcome.account]
                /\ (atm_account' = login_account) <=> outcome.session
        /\ (screen = "login" /\ out'.op = "handle_login" /\ out'.acct \in DOMAIN accounts
               /\ \E x \in AccountInputs : strip(x) = out'.acct /\ ATMInterface_handle_login(x, p)) =>
                LET outcome == handle_login_outcome(accounts[out'.acct], p) IN
                /\ accounts' = [accounts EXCEPT ![out'.acct] = outcome.account]
                /\ (atm_account' = out'.acct) <=> outcome.session]_vars

\* C30: login_user and handle_login are the same transition: on every
\* account state and for every PIN entry, well-formed or not, both make the
\* same change to failed_attempts and locked and both grant a session or
\* both do not.
C30_SameLoginTransition ==
    \A a \in DOMAIN accounts : \A p \in PinInputs :
        LET cli == login_user_outcome(accounts[a], p)
            gui == handle_login_outcome(accounts[a], p)
        IN  /\ cli.account.failed_attempts = gui.account.failed_attempts
            /\ cli.account.locked = gui.account.locked
            /\ cli.session = gui.session

-----------------------------------------------------------------------------
(* Properties of the input loops *)

\* C28: withdraw_money can be left at every balance >= 0, balance 0
\* included: in every state of its input loop some amount (a number, typed)
\* makes the operation return; and change_pin can be left once the current
\* PIN was accepted: some new PIN is taken, and some confirmation makes the
\* operation return.  (States in which the run may still append an entry.)
C28_LoopsCanBeLeft ==
    (ui = "cli" /\ now < MaxTransactions) =>
        /\ (pc = "withdraw_money" /\ FGe(accounts[atm_account].balance, Num(0)))
           => \E s \in AmountInputs :
                /\ float(s).k = "num"
                /\ ENABLED (ATMOperations_withdraw_money(s) /\ pc' = "menu")
        /\ pc = "change_pin_new"
           => \E p \in PinInputs :
                ENABLED (ATMOperations_change_pin_new(p) /\ pc' = "change_pin_confirm")
        /\ pc = "change_pin_confirm"
           => \E p \in PinInputs :
                ENABLED (ATMOperations_change_pin_confirm(p) /\ pc' = "menu")

-----------------------------------------------------------------------------
(* Properties that span several operations *)

\* C31: a successful PIN change replaces the stored PIN p by a new PIN q # p,
\* and the stored PIN changes at no other step; a login attempt on the
\* unlocked account is decided against the stored PIN: with it the attempt
\* succeeds, with any other entry (the old PIN p included) it is a wrong PIN
\* that adds 1 to failed_attempts and grants no session.  So after a change
\* from p to q, until the next change, p is refused and q is accepted.
C31_LoginFollowsPinChange ==
    /\ [][out'.msg = "PIN changed successfully" =>
            /\ accounts'[out'.acct].pin # accounts[out'.acct].pin
            /\ ui = "cli" => accounts'[out'.acct].pin = new_pin]_vars
    /\ [][\A a \in DOMAIN accounts :
            accounts'[a].pin # accounts[a].pin =>
                out'.msg = "PIN changed successfully" /\ out'.acct = a]_vars
    /\ [][\A a \in DOMAIN accounts : \A e \in PinInputs :
            (~accounts[a].locked /\ (GuiLoginAttempt(a, e) \/ CliPinEntry(a, e))) =>
                IF e = accounts[a].pin
                THEN /\ out'.msg = "Login successful"
                     /\ atm_account' = a
                ELSE /\ accounts'[a].failed_attempts = accounts[a].failed_attempts + 1
                     /\ accounts'[a].pin = accounts[a].pin
                     /\ atm_account' = NoAccount]_vars

\* C31 witness: the PIN of the first sample account was changed from 1234,
\* the session ended, and a later login attempt with a PIN that is not the
\* new one was counted as a wrong PIN
C31_Witness ==
    LET h == accounts[Acct123456789].transaction_history IN
    /\ out.op \in {"handle_login", "login_user"}
    /\ out.acct = Acct123456789
    /\ out.msg = "Incorrect PIN"
    /\ accounts[Acct123456789].pin # Pin1234
    /\ accounts[Acct123456789].failed_attempts = 1
    /\ Last(h).type = "PIN Change"
    /\ atm_account = NoAccount


\* the entries of a history that were appended in this run (the sample
\* entries are dated before it), oldest first
RunEntry(e) == e.date.t >= 0
RunEntries(h) == SelectSeq(h, RunEntry)

\* the balance that results from a balance by the entries from i on, taken
\* in order: a Deposit adds its amount, a Withdrawal subtracts it, any other
\* entry contributes nothing
RECURSIVE Replay(_, _, _)
Replay(balance, entries, i) ==
    IF i > Len(entries) THEN balance
    ELSE Replay(CASE entries[i].type = "Deposit" -> FAdd(balance, entries[i].amount)
                  [] entries[i].type = "Withdrawal" -> FSub(balance, entries[i].amount)
                  [] OTHER -> balance,
                entries, i + 1)

\* C32: after any sequence of requests, the balance of an account is its
\* initial balance plus the amounts of the accepted deposits minus the
\* amounts of the accepted withdrawals, taken in the order they were made;
\* a step that is not an accepted deposit or withdrawal on the account
\* (a refused request, a PIN change) leaves its balance as it was.
C32_BalanceIsInitialPlusNet ==
    /\ [](\A a \in DOMAIN accounts :
            accounts[a].balance =
                Replay(initialize_sample_data(0)[a].balance,
                       RunEntries(accounts[a].transaction_history), 1))
    /\ [][\A a \in DOMAIN accounts :
            accounts'[a].balance # accounts[a].balance =>
                /\ out'.acct = a
                /\ out'.msg \in {"Deposit successful", "Withdrawal successful"}
                /\ Len(accounts'[a].transaction_history) = Len(accounts[a].transaction_history) + 1
                /\ Last(accounts'[a].transaction_history).type =
                        (IF out'.msg = "Deposit successful" THEN "Deposit" ELSE "Withdrawal")]_vars

\* C32 witness: on the first sample account (1500) a deposit of 1500 and
\* then a withdrawal of 1500 were accepted, with a refused request last: the
\* balance is 1500 + 1500 - 1500
C32_Witness ==
    LET h == RunEntries(accounts[Acct123456789].transaction_history) IN
    /\ Len(h) = 2
    /\ h[1].type = "Deposit" /\ h[1].amount = Dollars(1500, 0)
    /\ h[2].type = "Withdrawal" /\ h[2].amount = Dollars(1500, 0)
    /\ accounts[Acct123456789].balance = Dollars(1500, 0)
    /\ out.op \in {"deposit_money", "withdraw_money"}
    /\ out.msg \notin Committed
    /\ out.msg # ""


\* C33: in every reachable state each pair of consecutive ledger entries
\* (prev, e) of an account is consistent: e.balance_after is
\* prev.balance_after + e.amount for a Deposit, prev.balance_after - e.amount
\* for a Withdrawal, and prev.balance_after for a PIN Change, whose amount
\* is 0; and every Deposit and Withdrawal entry has amount > 0.
C33_LedgerConsistent ==
    \A a \in DOMAIN accounts :
        LET h == accounts[a].transaction_history IN
        /\ \A i \in 2..Len(h) :
            LET prev == h[i - 1]
                e == h[i]
            IN  CASE e.type = "Deposit" -> e.balance_after = FAdd(prev.balance_after, e.amount)
                  [] e.type = "Withdrawal" -> e.balance_after = FSub(prev.balance_after, e.amount)
                  [] OTHER -> e.balance_after = prev.balance_after /\ e.amount = Num(0)
        /\ \A i \in 1..Len(h) :
            h[i].type \in {"Deposit", "Withdrawal"} => FGt(h[i].amount, Num(0))


\* C34: a login attempt, deposit, withdrawal or PIN change addressed to an
\* account leaves every other account of the store exactly as it was (pin,
\* balance, failed_attempts, locked, transaction_history and the rest), adds
\* and removes no account, and leaves the account_number and the name of the
\* account addressed unchanged.
C34_OtherAccountsUnchanged ==
    [][out'.op \in {"handle_login", "login_user", "deposit_money", "withdraw_money", "change_pin"} =>
        /\ DOMAIN accounts' = DOMAIN accounts
        /\ \A b \in DOMAIN accounts :
            /\ b # out'.acct => accounts'[b] = accounts[b]
            /\ accounts'[b].account_number = accounts[b].account_number
            /\ accounts'[b].name = accounts[b].name]_vars

\* C34 witness: after a wrong PIN on the sample account that starts with two
\* failed attempts (which locks it), a login to the first sample account, a
\* deposit or withdrawal and a PIN change there, the other four accounts
\* differ from the sample store only by that one failed attempt
C34_Witness ==
    LET sample == initialize_sample_data(0) IN
    /\ out.op = "change_pin"
    /\ out.msg = "PIN changed successfully"
    /\ out.acct = Acct123456789
    /\ accounts[Acct123456789].balance # sample[Acct123456789].balance
    /\ accounts[Acct123456789].pin # sample[Acct123456789].pin
    /\ accounts[Acct123456789].name = "John Smith"
    /\ accounts[Acct123456789].account_number = Acct123456789
    /\ accounts[Acct111222333] = [sample[Acct111222333] EXCEPT !.failed_attempts = 3, !.locked = TRUE]
    /\ \A b \in DOMAIN accounts \ {Acct123456789, Acct111222333} : accounts[b] = sample[b]

=============================================================================
